---- MODULE Spec2Model ----
(***************************************************************************)
(* A model of the CHIP-8 interpreter core of emu8: the State snapshot,     *)
(* the opcode decoder, the per-instruction operations and the Chip8        *)
(* machine (history, pressed keys, timers, frame retrieval).               *)
(***************************************************************************)
EXTENDS Integers, Sequences, FiniteSets, TLC

(***************************************************************************)
(* Program constants.                                                      *)
(***************************************************************************)
DISPLAY_WIDTH == 64
DISPLAY_HEIGHT == 32
MEMORY_SIZE == 4096
ROM_START == 512
NUM_REGISTERS == 16
STACK_SIZE == 16
NUM_KEYS == 16
CPU_CYCLES_PER_TIMER_CYCLE == 8

(***************************************************************************)
(* Bounds of the model.  The source keeps MAX_SAVED_STATES = 1000 states;  *)
(* the model keeps a shorter history so that eviction happens within a few *)
(* cycles.  Nothing else in the code depends on the value.                 *)
(***************************************************************************)
MAX_SAVED_STATES == 2
\* how many keys the keypad events are drawn from (the highest ones)
KeyCount == 1
\* advance_timers calls interleaved with the other operations under Spec
MaxTimerCalls == 1
\* advance_timers calls in a run under SpecTimers: more than one timer period
MaxTimerRun == 11
\* advance_cpu calls in one run: one more than the history holds
MaxCycles == MAX_SAVED_STATES + 1

\* Option<u8>::None for register_needing_key
None == -1

(***************************************************************************)
(* Fixed-width helpers.                                                    *)
(***************************************************************************)
Pow2(k) == 2 ^ k
Bit(a, k) == (a \div Pow2(k)) % 2
BitAndF(p, q) == p * q
BitOrF(p, q) == IF p + q > 0 THEN 1 ELSE 0
BitXorF(p, q) == (p + q) % 2
BitAnd8(a, b) ==
    BitAndF(Bit(a, 0), Bit(b, 0)) + 2 * BitAndF(Bit(a, 1), Bit(b, 1))
    + 4 * BitAndF(Bit(a, 2), Bit(b, 2)) + 8 * BitAndF(Bit(a, 3), Bit(b, 3))
    + 16 * BitAndF(Bit(a, 4), Bit(b, 4)) + 32 * BitAndF(Bit(a, 5), Bit(b, 5))
    + 64 * BitAndF(Bit(a, 6), Bit(b, 6)) + 128 * BitAndF(Bit(a, 7), Bit(b, 7))
BitOr8(a, b) ==
    BitOrF(Bit(a, 0), Bit(b, 0)) + 2 * BitOrF(Bit(a, 1), Bit(b, 1))
    + 4 * BitOrF(Bit(a, 2), Bit(b, 2)) + 8 * BitOrF(Bit(a, 3), Bit(b, 3))
    + 16 * BitOrF(Bit(a, 4), Bit(b, 4)) + 32 * BitOrF(Bit(a, 5), Bit(b, 5))
    + 64 * BitOrF(Bit(a, 6), Bit(b, 6)) + 128 * BitOrF(Bit(a, 7), Bit(b, 7))
BitXor8(a, b) ==
    BitXorF(Bit(a, 0), Bit(b, 0)) + 2 * BitXorF(Bit(a, 1), Bit(b, 1))
    + 4 * BitXorF(Bit(a, 2), Bit(b, 2)) + 8 * BitXorF(Bit(a, 3), Bit(b, 3))
    + 16 * BitXorF(Bit(a, 4), Bit(b, 4)) + 32 * BitXorF(Bit(a, 5), Bit(b, 5))
    + 64 * BitXorF(Bit(a, 6), Bit(b, 6)) + 128 * BitXorF(Bit(a, 7), Bit(b, 7))

\* a u8 / u16 result of `a + b` or `a - b`: the build either checks the
\* overflow (a panic) or wraps
Fits(val, width) == val >= 0 /\ val < Pow2(width)
Wrap(val, width) == val % Pow2(width)

(***************************************************************************)
(* The built-in hexadecimal font, 16 glyphs of 5 bytes.                    *)
(***************************************************************************)
SPRITE_SHEET ==
    << 240, 144, 144, 144, 240,   32,  96,  32,  32, 112,
       240,  16, 240, 128, 240,  240,  16, 240,  16, 240,
       144, 144, 240,  16,  16,  240, 128, 240,  16, 240,
       240, 128, 240, 144, 240,  240,  16,  32,  64,  64,
       240, 144, 240, 144, 240,  240, 144, 240,  16, 240,
       240, 144, 240, 144, 144,  224, 144, 224, 144, 224,
       240, 128, 128, 128, 240,  224, 144, 144, 144, 224,
       240, 128, 240, 128, 240,  240, 128, 240, 128, 128 >>

(***************************************************************************)
(* memory ([u8; 4096]) and frame_buffer ([[u8; 64]; 32], indexed           *)
(* [row][col]) are arrays whose cells are mostly zero.  The model keeps an *)
(* array as the function from the indices of its non-zero cells to their   *)
(* values: Cell reads a cell, Store writes cells, and two arrays are equal *)
(* exactly when all their cells are.  The bounds checks of the source are  *)
(* modelled where the arrays are indexed.                                  *)
(***************************************************************************)
ZeroArray == [k \in {} |-> 0]
Cell(arr, k) == IF k \in DOMAIN arr THEN arr[k] ELSE 0
Written(arr, writes, k) == IF k \in DOMAIN writes THEN writes[k] ELSE arr[k]
Store(arr, writes) ==
    LET nonzero == { k \in (DOMAIN arr) \cup (DOMAIN writes) :
                        Written(arr, writes, k) # 0 }
    IN  [k \in nonzero |-> Written(arr, writes, k)]

(***************************************************************************)
(* State::new                                                              *)
(***************************************************************************)
EmptyFrame == ZeroArray

StateNew ==
    [ v |-> [r \in 0..(NUM_REGISTERS - 1) |-> 0],
      i |-> 0,
      pc |-> ROM_START,
      sp |-> 0,
      delay_timer |-> 0,
      sound_timer |-> 0,
      stack |-> [s \in 0..(STACK_SIZE - 1) |-> 0],
      memory |-> Store(ZeroArray, [a \in 0..79 |-> SPRITE_SHEET[a + 1]]),
      frame_buffer |-> EmptyFrame,
      draw_flag |-> FALSE,
      register_needing_key |-> None,
      delay_counter |-> 0 ]

(***************************************************************************)
(* Opcode accessors.                                                       *)
(***************************************************************************)
op_x(op) == (op \div 256) % 16
op_y(op) == (op \div 16) % 16
op_n(op) == op % 16
op_kk(op) == op % 256
op_addr(op) == op % 4096
\* nibbles with the two middle nibbles taken in the wrong order
nibbles_swapped(op) == << op \div 4096, op_y(op), op_x(op), op_n(op) >>

nibbles(op) == << op \div 4096, op_x(op), op_y(op), op_n(op) >>

(***************************************************************************)
(* Instruction::from_op.  The match arms are tried in order; "Panic" is    *)
(* the final arm (`panic!("Opcode ... is not implemented")`).              *)
(***************************************************************************)

\* `..` and omitted nibbles of a match arm
Wild == -2

\* the match arms of from_op, in source order
PATTERN_TABLE ==
    << [name |-> "Clr",   nibbles |-> << 0, 0, 14, 0 >>],
       [name |-> "Rts",   nibbles |-> << 0, 0, 14, 14 >>],
       [name |-> "Jump",  nibbles |-> << 1, Wild, Wild, Wild >>],
       [name |-> "Call",  nibbles |-> << 2, Wild, Wild, Wild >>],
       [name |-> "Ske",   nibbles |-> << 3, Wild, Wild, Wild >>],
       [name |-> "Skne",  nibbles |-> << 4, Wild, Wild, Wild >>],
       [name |-> "Skre",  nibbles |-> << 5, Wild, Wild, 0 >>],
       [name |-> "Load",  nibbles |-> << 6, Wild, Wild, Wild >>],
       [name |-> "Add",   nibbles |-> << 7, Wild, Wild, Wild >>],
       [name |-> "Move",  nibbles |-> << 8, Wild, Wild, 0 >>],
       [name |-> "Or",    nibbles |-> << 8, Wild, Wild, 1 >>],
       [name |-> "And",   nibbles |-> << 8, Wild, Wild, 2 >>],
       [name |-> "Xor",   nibbles |-> << 8, Wild, Wild, 3 >>],
       [name |-> "Addr",  nibbles |-> << 8, Wild, Wild, 4 >>],
       [name |-> "Sub",   nibbles |-> << 8, Wild, Wild, 5 >>],
       [name |-> "Shr",   nibbles |-> << 8, Wild, Wild, 6 >>],
       [name |-> "Subn",  nibbles |-> << 8, Wild, Wild, 7 >>],
       [name |-> "Shl",   nibbles |-> << 8, Wild, Wild, 14 >>],
       [name |-> "Skrne", nibbles |-> << 9, Wild, Wild, 0 >>],
       [name |-> "Loadi", nibbles |-> << 10, Wild, Wild, Wild >>],
       [name |-> "Jumpi", nibbles |-> << 11, Wild, Wild, Wild >>],
       [name |-> "Rand",  nibbles |-> << 12, Wild, Wild, Wild >>],
       [name |-> "Draw",  nibbles |-> << 13, Wild, Wild, Wild >>],
       [name |-> "Skpr",  nibbles |-> << 14, Wild, 9, 14 >>],
       [name |-> "Skup",  nibbles |-> << 14, Wild, 10, 1 >>],
       [name |-> "Moved", nibbles |-> << 15, Wild, 0, 7 >>],
       [name |-> "Keyd",  nibbles |-> << 15, Wild, 0, 10 >>],
       [name |-> "Loads", nibbles |-> << 15, Wild, 1, 5 >>],
       [name |-> "Ld",    nibbles |-> << 15, Wild, 1, 8 >>],
       [name |-> "Addi",  nibbles |-> << 15, Wild, 1, 14 >>],
       [name |-> "Ldspr", nibbles |-> << 15, Wild, 2, 9 >>],
       [name |-> "Bcd",   nibbles |-> << 15, Wild, 3, 3 >>],
       [name |-> "Stor",  nibbles |-> << 15, Wild, 5, 5 >>],
       [name |-> "Read",  nibbles |-> << 15, Wild, 6, 5 >> ] >>

\* the table with an arm for 0nnn (SYS addr of the original machine) added in
\* front of it, run as a clear
pattern_with_sys(k) ==
    IF k = 1 THEN [name |-> "Clr", nibbles |-> << 0, Wild, Wild, Wild >>]
    ELSE PATTERN_TABLE[k]

\* the k-th match arm
pattern(k) == PATTERN_TABLE[k]

\* the nibbles of op match the k-th arm
matches(op, k) ==
    \A j \in 1..4 : pattern(k).nibbles[j] \in { Wild, nibbles(op)[j] }

from_op(op) ==
    LET nb == nibbles(op)
        n0 == nb[1]
        n1 == nb[2]
        n2 == nb[3]
        n3 == nb[4]
    IN  IF nb = <<0, 0, 14, 0>> THEN "Clr"
        ELSE IF nb = <<0, 0, 14, 14>> THEN "Rts"
        ELSE IF n0 = 1 THEN "Jump"
        ELSE IF n0 = 2 THEN "Call"
        ELSE IF n0 = 3 THEN "Ske"
        ELSE IF n0 = 4 THEN "Skne"
        ELSE IF n0 = 5 /\ n3 = 0 THEN "Skre"
        ELSE IF n0 = 6 THEN "Load"
        ELSE IF n0 = 7 THEN "Add"
        ELSE IF n0 = 8 /\ n3 = 0 THEN "Move"
        ELSE IF n0 = 8 /\ n3 = 1 THEN "Or"
        ELSE IF n0 = 8 /\ n3 = 2 THEN "And"
        ELSE IF n0 = 8 /\ n3 = 3 THEN "Xor"
        ELSE IF n0 = 8 /\ n3 = 4 THEN "Addr"
        ELSE IF n0 = 8 /\ n3 = 5 THEN "Sub"
        ELSE IF n0 = 8 /\ n3 = 6 THEN "Shr"
        ELSE IF n0 = 8 /\ n3 = 7 THEN "Subn"
        ELSE IF n0 = 8 /\ n3 = 14 THEN "Shl"
        ELSE IF n0 = 9 /\ n3 = 0 THEN "Skrne"
        ELSE IF n0 = 10 THEN "Loadi"
        ELSE IF n0 = 11 THEN "Jumpi"
        ELSE IF n0 = 12 THEN "Rand"
        ELSE IF n0 = 13 THEN "Draw"
        ELSE IF n0 = 14 /\ n2 = 9 /\ n3 = 14 THEN "Skpr"
        ELSE IF n0 = 14 /\ n2 = 10 /\ n3 = 1 THEN "Skup"
        ELSE IF n0 = 15 /\ n2 = 0 /\ n3 = 7 THEN "Moved"
        ELSE IF n0 = 15 /\ n2 = 0 /\ n3 = 10 THEN "Keyd"
        ELSE IF n0 = 15 /\ n2 = 1 /\ n3 = 5 THEN "Loads"
        ELSE IF n0 = 15 /\ n2 = 1 /\ n3 = 8 THEN "Ld"
        ELSE IF n0 = 15 /\ n2 = 1 /\ n3 = 14 THEN "Addi"
        ELSE IF n0 = 15 /\ n2 = 2 /\ n3 = 9 THEN "Ldspr"
        ELSE IF n0 = 15 /\ n2 = 3 /\ n3 = 3 THEN "Bcd"
        ELSE IF n0 = 15 /\ n2 = 5 /\ n3 = 5 THEN "Stor"
        ELSE IF n0 = 15 /\ n2 = 6 /\ n3 = 5 THEN "Read"
        ELSE "Panic"

(***************************************************************************)
(* operations.rs.  Each operation maps (op, state, pressed_keys) to a new  *)
(* State.  The result carries `ok`: FALSE when the operation panics (an    *)
(* index out of bounds, or an arithmetic overflow in a build that checks   *)
(* overflow; `checks` says whether the build does).  Without the checks    *)
(* the arithmetic wraps.                                                   *)
(***************************************************************************)
Res(ok, st) == [ok |-> ok, st |-> st]
ArithOk(val, width, checks) == Fits(val, width) \/ ~checks
PcBump(state, d) == Wrap(state.pc + d, 16)


\* clr that zeroes the top row only
clr_top_row(op, state, keys, checks) ==
    Res(ArithOk(state.pc + 2, 16, checks),
        [state EXCEPT !.pc = PcBump(state, 2),
                      !.frame_buffer =
                          Store(state.frame_buffer,
                                [cell \in { 0 } \X (0..(DISPLAY_WIDTH - 1)) |-> 0]),
                      !.draw_flag = TRUE])

\* clr that leaves draw_flag as it was
clr_keep_flag(op, state, keys, checks) ==
    Res(ArithOk(state.pc + 2, 16, checks),
        [state EXCEPT !.pc = PcBump(state, 2),
                      !.frame_buffer = EmptyFrame])

clr(op, state, keys, checks) ==
    Res(ArithOk(state.pc + 2, 16, checks),
        [state EXCEPT !.pc = PcBump(state, 2),
                      !.frame_buffer = EmptyFrame,
                      !.draw_flag = TRUE])

\* rts that returns to the call itself instead of the instruction after it
rts_no_bump(op, state, keys, checks) ==
    IF state.sp >= STACK_SIZE THEN Res(FALSE, state)
    ELSE Res(ArithOk(state.sp - 1, 8, checks),
             [state EXCEPT !.pc = state.stack[state.sp],
                           !.sp = Wrap(state.sp - 1, 8)])


\* rts that pops before it reads: pc = stack[sp - 1] + 2
rts_pop_first(op, state, keys, checks) ==
    LET sp == Wrap(state.sp - 1, 8)
    IN  IF ~ArithOk(state.sp - 1, 8, checks) \/ sp >= STACK_SIZE
        THEN Res(FALSE, state)
        ELSE Res(ArithOk(state.stack[sp] + 2, 16, checks),
                 [state EXCEPT !.pc = Wrap(state.stack[sp] + 2, 16), !.sp = sp])

rts(op, state, keys, checks) ==
    IF state.sp >= STACK_SIZE THEN Res(FALSE, state)
    ELSE Res(ArithOk(state.stack[state.sp] + 2, 16, checks)
                /\ ArithOk(state.sp - 1, 8, checks),
             [state EXCEPT !.pc = Wrap(state.stack[state.sp] + 2, 16),
                           !.sp = Wrap(state.sp - 1, 8)])

jump(op, state, keys, checks) ==
    Res(TRUE, [state EXCEPT !.pc = op_addr(op)])

\* call that pushes the address of the instruction after the call
call_push_next(op, state, keys, checks) ==
    LET sp == Wrap(state.sp + 1, 8)
    IN  IF ~ArithOk(state.sp + 1, 8, checks) \/ sp >= STACK_SIZE
        THEN Res(FALSE, state)
        ELSE Res(TRUE, [state EXCEPT !.pc = op_addr(op),
                                     !.sp = sp,
                                     !.stack[sp] = state.pc + 2])

call(op, state, keys, checks) ==
    LET sp == Wrap(state.sp + 1, 8)
    IN  IF ~ArithOk(state.sp + 1, 8, checks) \/ sp >= STACK_SIZE
        THEN Res(FALSE, state)
        ELSE Res(TRUE, [state EXCEPT !.pc = op_addr(op),
                                     !.sp = sp,
                                     !.stack[sp] = state.pc])

Skip(state, cond, checks) ==
    LET d == IF cond THEN 4 ELSE 2
    IN  Res(ArithOk(state.pc + d, 16, checks), [state EXCEPT !.pc = PcBump(state, d)])

ske(op, state, keys, checks) ==
    Skip(state, state.v[op_x(op)] = op_kk(op), checks)

skne(op, state, keys, checks) ==
    Skip(state, state.v[op_x(op)] # op_kk(op), checks)

skre(op, state, keys, checks) ==
    Skip(state, state.v[op_x(op)] = state.v[op_y(op)], checks)

\* the shape shared by the operations that write Vx (and VF) and bump pc
SetV(state, v, checks) ==
    Res(ArithOk(state.pc + 2, 16, checks),
        [state EXCEPT !.pc = PcBump(state, 2), !.v = v])

load(op, state, keys, checks) ==
    SetV(state, [state.v EXCEPT ![op_x(op)] = op_kk(op)], checks)

add(op, state, keys, checks) ==
    SetV(state, [state.v EXCEPT ![op_x(op)] = Wrap(state.v[op_x(op)] + op_kk(op), 8)],
         checks)

mv(op, state, keys, checks) ==
    SetV(state, [state.v EXCEPT ![op_x(op)] = state.v[op_y(op)]], checks)


\* or in the original COSMAC reading: the logical operations reset VF
or_resets_flag(op, state, keys, checks) ==
    LET v1 == [state.v EXCEPT ![15] = 0]
    IN  SetV(state, [v1 EXCEPT ![op_x(op)] =
                        BitOr8(state.v[op_x(op)], state.v[op_y(op)])], checks)

or(op, state, keys, checks) ==
    SetV(state, [state.v EXCEPT ![op_x(op)] =
                    BitOr8(state.v[op_x(op)], state.v[op_y(op)])], checks)

and(op, state, keys, checks) ==
    SetV(state, [state.v EXCEPT ![op_x(op)] =
                    BitAnd8(state.v[op_x(op)], state.v[op_y(op)])], checks)

xor(op, state, keys, checks) ==
    SetV(state, [state.v EXCEPT ![op_x(op)] =
                    BitXor8(state.v[op_x(op)], state.v[op_y(op)])], checks)

\* `v[0xF] = flag; v[x] = res`: the write to Vx comes second
addr(op, state, keys, checks) ==
    LET sum == state.v[op_x(op)] + state.v[op_y(op)]
        over == sum > 255
    IN  SetV(state, [state.v EXCEPT ![15] = IF over THEN 1 ELSE 0,
                                    ![op_x(op)] = Wrap(sum, 8)], checks)

sub(op, state, keys, checks) ==
    LET diff == state.v[op_x(op)] - state.v[op_y(op)]
        under == diff < 0
    IN  SetV(state, [state.v EXCEPT ![15] = IF under THEN 0 ELSE 1,
                                    ![op_x(op)] = Wrap(diff, 8)], checks)


\* shr in the original COSMAC reading: Vx = Vy >> 1, VF = the bit shifted out
\* of Vy
shr_from_vy(op, state, keys, checks) ==
    LET v1 == [state.v EXCEPT ![15] = BitAnd8(state.v[op_y(op)], 1)]
    IN  SetV(state, [v1 EXCEPT ![op_x(op)] = v1[op_y(op)] \div 2], checks)

\* `v[0xF] = v[x] & 1; v[x] /= 2`: the division reads v after the flag write
shr(op, state, keys, checks) ==
    LET v1 == [state.v EXCEPT ![15] = BitAnd8(state.v[op_x(op)], 1)]
    IN  SetV(state, [v1 EXCEPT ![op_x(op)] = v1[op_x(op)] \div 2], checks)

subn(op, state, keys, checks) ==
    LET diff == state.v[op_y(op)] - state.v[op_x(op)]
        under == diff < 0
    IN  SetV(state, [state.v EXCEPT ![15] = IF under THEN 0 ELSE 1,
                                    ![op_x(op)] = Wrap(diff, 8)], checks)

shl(op, state, keys, checks) ==
    LET prod == state.v[op_x(op)] * 2
        over == prod > 255
    IN  SetV(state, [state.v EXCEPT ![15] = IF over THEN 1 ELSE 0,
                                    ![op_x(op)] = Wrap(prod, 8)], checks)

skrne(op, state, keys, checks) ==
    Skip(state, state.v[op_x(op)] # state.v[op_y(op)], checks)

loadi(op, state, keys, checks) ==
    Res(ArithOk(state.pc + 2, 16, checks),
        [state EXCEPT !.pc = PcBump(state, 2), !.i = op_addr(op)])

jumpi(op, state, keys, checks) ==
    Res(TRUE, [state EXCEPT !.pc = state.v[0] + op_addr(op)])

\* rand_byte is the byte drawn by rand::random()
rand(op, state, keys, checks, rand_byte) ==
    SetV(state, [state.v EXCEPT ![op_x(op)] = BitAnd8(rand_byte, op_kk(op))], checks)

\* Variants of draw: without the wraparound of the coordinates (wraps =
\* FALSE), with the flag of the last visit only (accumulates = FALSE), with
\* the pixel ORed into the cell (toggles = FALSE).
draw_variant(op, state, checks, wraps, accumulates, toggles) ==
    LET rows == op_n(op)
        vx == state.v[op_x(op)]
        vy == state.v[op_y(op)]
        pixel_value(byte, bit) == Bit(Cell(state.memory, state.i + byte), 7 - bit)
        target(byte, bit) ==
            IF wraps
            THEN << (vy + byte) % DISPLAY_HEIGHT, (vx + bit) % DISPLAY_WIDTH >>
            ELSE << vy + byte, vx + bit >>
        loop == (0..(rows - 1)) \X (0..7)
        hit(byte, bit) ==
            pixel_value(byte, bit) = 1
                /\ Cell(state.frame_buffer, target(byte, bit)) = 1
        collision ==
            IF accumulates THEN \E bb \in loop : hit(bb[1], bb[2])
            ELSE rows > 0 /\ hit(rows - 1, 7)
        flipped == { target(bb[1], bb[2]) :
                        bb \in { cc \in loop : pixel_value(cc[1], cc[2]) = 1 } }
        frame_buffer ==
            Store(state.frame_buffer,
                  [cell \in flipped |->
                      IF toggles THEN 1 - Cell(state.frame_buffer, cell) ELSE 1])
    IN  IF rows > 0 /\ state.i + rows - 1 >= MEMORY_SIZE THEN Res(FALSE, state)
        ELSE Res(ArithOk(state.pc + 2, 16, checks),
                 [state EXCEPT !.pc = PcBump(state, 2),
                               !.draw_flag = TRUE,
                               !.v = [state.v EXCEPT ![15] = IF collision THEN 1 ELSE 0],
                               !.frame_buffer = frame_buffer])

draw_no_wrap(op, state, keys, checks) ==
    draw_variant(op, state, checks, FALSE, TRUE, TRUE)

draw_flag_of_last_visit(op, state, keys, checks) ==
    draw_variant(op, state, checks, TRUE, FALSE, TRUE)

draw_or(op, state, keys, checks) ==
    draw_variant(op, state, checks, TRUE, TRUE, FALSE)


\* draw without the `& 1`: the sprite byte shifted right by 7 - bit is XORed
\* into the cell and ANDed into VF whole
draw_unmasked(op, state, keys, checks) ==
    LET rows == op_n(op)
        vx == state.v[op_x(op)]
        vy == state.v[op_y(op)]
        loop == (0..(rows - 1)) \X (0..7)
        pixel_value(bb) == Cell(state.memory, state.i + bb[1]) \div Pow2(7 - bb[2])
        target(bb) == << (vy + bb[1]) % DISPLAY_HEIGHT, (vx + bb[2]) % DISPLAY_WIDTH >>
        hit(bb) == BitAnd8(pixel_value(bb), Cell(state.frame_buffer, target(bb)))
        flag_bit(j) == IF \E bb \in loop : Bit(hit(bb), j) = 1 THEN Pow2(j) ELSE 0
        flag == flag_bit(0) + flag_bit(1) + flag_bit(2) + flag_bit(3)
                    + flag_bit(4) + flag_bit(5) + flag_bit(6) + flag_bit(7)
        visit_of(cell) == CHOOSE bb \in loop : target(bb) = cell
        frame_buffer ==
            Store(state.frame_buffer,
                  [cell \in { target(bb) : bb \in loop } |->
                      BitXor8(Cell(state.frame_buffer, cell), pixel_value(visit_of(cell)))])
    IN  IF rows > 0 /\ state.i + rows - 1 >= MEMORY_SIZE THEN Res(FALSE, state)
        ELSE Res(ArithOk(state.pc + 2, 16, checks),
                 [state EXCEPT !.pc = PcBump(state, 2),
                               !.draw_flag = TRUE,
                               !.v = [state.v EXCEPT ![15] = flag],
                               !.frame_buffer = frame_buffer])

\* The sprite loop of draw.  Row `byte` of the sprite lands on frame row
\* (Vy + byte) % DISPLAY_HEIGHT, bit `bit` on column (Vx + bit) % DISPLAY_WIDTH;
\* each visit ORs `pixel & old cell` into VF and XORs the pixel into the cell.
\* Vx, Vy, I and the collision test read the state before the instruction.
draw(op, state, keys, checks) ==
    LET rows == op_n(op)
        vx == state.v[op_x(op)]
        vy == state.v[op_y(op)]
        pixel_value(byte, bit) == Bit(Cell(state.memory, state.i + byte), 7 - bit)
        target(byte, bit) == << (vy + byte) % DISPLAY_HEIGHT, (vx + bit) % DISPLAY_WIDTH >>
        loop == (0..(rows - 1)) \X (0..7)
        \* the visits that XOR a 1 into the cell
        flips(cell) == { bb \in loop : target(bb[1], bb[2]) = cell
                                        /\ pixel_value(bb[1], bb[2]) = 1 }
        flipped == { target(bb[1], bb[2]) : bb \in { cc \in loop : pixel_value(cc[1], cc[2]) = 1 } }
        collision ==
            \E bb \in loop :
                BitAnd8(pixel_value(bb[1], bb[2]),
                        Cell(state.frame_buffer, target(bb[1], bb[2]))) = 1
        frame_buffer ==
            Store(state.frame_buffer,
                  [cell \in flipped |->
                      IF Cardinality(flips(cell)) % 2 = 1
                      THEN BitXor8(Cell(state.frame_buffer, cell), 1)
                      ELSE Cell(state.frame_buffer, cell)])
    IN  IF rows > 0 /\ state.i + rows - 1 >= MEMORY_SIZE THEN Res(FALSE, state)
        ELSE Res(ArithOk(state.pc + 2, 16, checks),
                 [state EXCEPT !.pc = PcBump(state, 2),
                               !.draw_flag = TRUE,
                               !.v = [state.v EXCEPT ![15] = IF collision THEN 1 ELSE 0],
                               !.frame_buffer = frame_buffer])

skpr(op, state, keys, checks) ==
    IF state.v[op_x(op)] >= NUM_KEYS THEN Res(FALSE, state)
    ELSE Skip(state, keys[state.v[op_x(op)]] = 1, checks)

skup(op, state, keys, checks) ==
    IF state.v[op_x(op)] >= NUM_KEYS THEN Res(FALSE, state)
    ELSE Skip(state, keys[state.v[op_x(op)]] = 0, checks)

moved(op, state, keys, checks) ==
    SetV(state, [state.v EXCEPT ![op_x(op)] = state.delay_timer], checks)

\* keyd that suspends without stepping over the instruction
keyd_no_advance(op, state, keys, checks) ==
    Res(TRUE, [state EXCEPT !.register_needing_key = op_x(op)])


\* keyd that is satisfied by a key already held: Vx takes the lowest key that
\* is down and the machine does not suspend
keyd_takes_held_key(op, state, keys, checks) ==
    LET held == { k \in 0..(NUM_KEYS - 1) : keys[k] = 1 }
    IN  IF held = {}
        THEN Res(ArithOk(state.pc + 2, 16, checks),
                 [state EXCEPT !.pc = PcBump(state, 2),
                               !.register_needing_key = op_x(op)])
        ELSE Res(ArithOk(state.pc + 2, 16, checks),
                 [state EXCEPT !.pc = PcBump(state, 2),
                               !.v[op_x(op)] = CHOOSE k \in held : \A j \in held : k <= j])

keyd(op, state, keys, checks) ==
    Res(ArithOk(state.pc + 2, 16, checks),
        [state EXCEPT !.pc = PcBump(state, 2),
                      !.register_needing_key = op_x(op)])

loads(op, state, keys, checks) ==
    Res(ArithOk(state.pc + 2, 16, checks),
        [state EXCEPT !.pc = PcBump(state, 2),
                      !.delay_timer = state.v[op_x(op)]])

ld(op, state, keys, checks) ==
    Res(ArithOk(state.pc + 2, 16, checks),
        [state EXCEPT !.pc = PcBump(state, 2),
                      !.sound_timer = state.v[op_x(op)]])

addi(op, state, keys, checks) ==
    Res(ArithOk(state.pc + 2, 16, checks)
            /\ ArithOk(state.i + state.v[op_x(op)], 16, checks),
        [state EXCEPT !.pc = PcBump(state, 2),
                      !.i = Wrap(state.i + state.v[op_x(op)], 16)])

ldspr(op, state, keys, checks) ==
    Res(ArithOk(state.pc + 2, 16, checks),
        [state EXCEPT !.pc = PcBump(state, 2),
                      !.i = state.v[op_x(op)] * 5])


\* bcd that stores the digits least significant first
bcd_ones_first(op, state, keys, checks) ==
    LET vx == state.v[op_x(op)]
        digits == << vx % 10, (vx \div 10) % 10, (vx \div 100) % 10 >>
    IN  IF state.i + 3 > MEMORY_SIZE THEN Res(FALSE, state)
        ELSE Res(ArithOk(state.pc + 2, 16, checks),
                 [state EXCEPT !.pc = PcBump(state, 2),
                               !.memory = Store(state.memory,
                                    [a \in state.i..(state.i + 2) |->
                                        digits[a - state.i + 1]])])

\* memory[i .. i + 3] = the three decimal digits of Vx; the slice must lie
\* inside memory
bcd(op, state, keys, checks) ==
    LET vx == state.v[op_x(op)]
        digits == << (vx \div 100) % 10, (vx \div 10) % 10, vx % 10 >>
    IN  IF state.i + 3 > MEMORY_SIZE THEN Res(FALSE, state)
        ELSE Res(ArithOk(state.pc + 2, 16, checks),
                 [state EXCEPT !.pc = PcBump(state, 2),
                               !.memory = Store(state.memory,
                                    [a \in state.i..(state.i + 2) |->
                                        digits[a - state.i + 1]])])

\* stor over the half-open range: V0 .. Vx-1 into memory[i .. i + x]
stor_exclusive(op, state, keys, checks) ==
    IF state.i + op_x(op) > MEMORY_SIZE THEN Res(FALSE, state)
    ELSE Res(ArithOk(state.pc + 2, 16, checks),
             [state EXCEPT !.pc = PcBump(state, 2),
                           !.memory = Store(state.memory,
                                [a \in state.i..(state.i + op_x(op) - 1) |->
                                    state.v[a - state.i]])])

\* memory[i ..= i + x] = V0 ..= Vx
stor(op, state, keys, checks) ==
    IF state.i + op_x(op) >= MEMORY_SIZE THEN Res(FALSE, state)
    ELSE Res(ArithOk(state.pc + 2, 16, checks),
             [state EXCEPT !.pc = PcBump(state, 2),
                           !.memory = Store(state.memory,
                                [a \in state.i..(state.i + op_x(op)) |->
                                    state.v[a - state.i]])])

\* V0 ..= Vx = memory[i ..= i + x]
read(op, state, keys, checks) ==
    IF state.i + op_x(op) >= MEMORY_SIZE THEN Res(FALSE, state)
    ELSE SetV(state, [r \in 0..(NUM_REGISTERS - 1) |->
                        IF r <= op_x(op) THEN Cell(state.memory, state.i + r)
                        ELSE state.v[r]], checks)

(***************************************************************************)
(* Instruction::execute: the dispatch table.                               *)
(***************************************************************************)
execute(instruction, op, state, keys, checks, rand_byte) ==
    CASE instruction = "Clr" -> clr(op, state, keys, checks)
      [] instruction = "Rts" -> rts(op, state, keys, checks)
      [] instruction = "Jump" -> jump(op, state, keys, checks)
      [] instruction = "Call" -> call(op, state, keys, checks)
      [] instruction = "Ske" -> ske(op, state, keys, checks)
      [] instruction = "Skne" -> skne(op, state, keys, checks)
      [] instruction = "Skre" -> skre(op, state, keys, checks)
      [] instruction = "Load" -> load(op, state, keys, checks)
      [] instruction = "Add" -> add(op, state, keys, checks)
      [] instruction = "Move" -> mv(op, state, keys, checks)
      [] instruction = "Or" -> or(op, state, keys, checks)
      [] instruction = "And" -> and(op, state, keys, checks)
      [] instruction = "Xor" -> xor(op, state, keys, checks)
      [] instruction = "Addr" -> addr(op, state, keys, checks)
      [] instruction = "Sub" -> sub(op, state, keys, checks)
      [] instruction = "Shr" -> shr(op, state, keys, checks)
      [] instruction = "Subn" -> subn(op, state, keys, checks)
      [] instruction = "Shl" -> shl(op, state, keys, checks)
      [] instruction = "Skrne" -> skrne(op, state, keys, checks)
      [] instruction = "Loadi" -> loadi(op, state, keys, checks)
      [] instruction = "Jumpi" -> jumpi(op, state, keys, checks)
      [] instruction = "Rand" -> rand(op, state, keys, checks, rand_byte)
      [] instruction = "Draw" -> draw(op, state, keys, checks)
      [] instruction = "Skpr" -> skpr(op, state, keys, checks)
      [] instruction = "Skup" -> skup(op, state, keys, checks)
      [] instruction = "Moved" -> moved(op, state, keys, checks)
      [] instruction = "Keyd" -> keyd(op, state, keys, checks)
      [] instruction = "Loads" -> loads(op, state, keys, checks)
      [] instruction = "Ld" -> ld(op, state, keys, checks)
      [] instruction = "Addi" -> addi(op, state, keys, checks)
      [] instruction = "Ldspr" -> ldspr(op, state, keys, checks)
      [] instruction = "Bcd" -> bcd(op, state, keys, checks)
      [] instruction = "Stor" -> stor(op, state, keys, checks)
      [] instruction = "Read" -> read(op, state, keys, checks)

(***************************************************************************)
(* src/src/opcode.rs: the monolithic executor, one match over the nibbles  *)
(* that edits a clone of the state in place and adds pc_bump to pc at the  *)
(* end.  Its State carries pressed_keys; here they are the keys argument.  *)
(***************************************************************************)
\* the outcome of a match arm: whether it ran to its end, the edited state
\* and the pc_bump left for the end of execute
Arm(ok, st, bump) == [ok |-> ok, st |-> st, bump |-> bump]

\* `if cond { state.pc += 0x2 }`
SkipNext(state, cond, checks) ==
    IF cond
    THEN Arm(ArithOk(state.pc + 2, 16, checks), [state EXCEPT !.pc = PcBump(state, 2)], 2)
    ELSE Arm(TRUE, state, 2)

\* `state.v[0xF] = flag; state.v[x] = res`, in that order
SetFlagThenVx(state, x, flag, res) ==
    [state EXCEPT !.v = [[state.v EXCEPT ![15] = flag] EXCEPT ![x] = res]]

\* The 0xD arm.  The loops edit state.v[0xF] and state.frame_buffer and read
\* state.v[y] at the start of every row and state.v[x] at every bit, from the
\* state being edited.  An edit is VF and the cells whose value differs from
\* state.frame_buffer's (each `^= 1` toggles one).
\* the body of the inner loop
draw_bit(op, state, edit, row, byte, bit) ==
    LET x_reg == IF op_x(op) = 15 THEN edit.vf ELSE state.v[op_x(op)]
        cell == << row, (x_reg + bit) % DISPLAY_WIDTH >>
        pixel_value == Bit(Cell(state.memory, state.i + byte), 7 - bit)
        old == BitXorF(Cell(state.frame_buffer, cell),
                       IF cell \in edit.toggled THEN 1 ELSE 0)
    IN  [edit EXCEPT
            !.vf = BitOrF(@, BitAndF(pixel_value, old)),
            !.toggled = IF pixel_value = 0 THEN @
                        ELSE IF cell \in @ THEN @ \ { cell }
                        ELSE @ \cup { cell }]

\* the body of the outer loop: `let y = ...`, then the eight bits
draw_byte(op, state, edit, byte) ==
    LET y_reg == IF op_y(op) = 15 THEN edit.vf ELSE state.v[op_y(op)]
        row == (y_reg + byte) % DISPLAY_HEIGHT
        bits[n \in 0..8] ==
            IF n = 0 THEN edit
            ELSE draw_bit(op, state, bits[n - 1], row, byte, n - 1)
    IN  [edit EXCEPT !.vf = bits[8].vf, !.toggled = bits[8].toggled]

draw_in_place(op, state) ==
    LET rows == op_n(op)
        bytes[n \in 0..rows] ==
            IF n = 0 THEN [vf |-> 0, toggled |-> {}]
            ELSE draw_byte(op, state, bytes[n - 1], n - 1)
        done == bytes[rows]
    IN  IF rows > 0 /\ state.i + rows - 1 >= MEMORY_SIZE THEN Arm(FALSE, state, 2)
        ELSE Arm(TRUE,
                 [state EXCEPT
                    !.draw_flag = TRUE,
                    !.v = [state.v EXCEPT ![15] = done.vf],
                    !.frame_buffer =
                        Store(state.frame_buffer,
                              [cell \in done.toggled |->
                                  BitXorF(Cell(state.frame_buffer, cell), 1)])],
                 2)

opcode_arm(op, state, keys, checks, rand_byte) ==
    LET nb == << op \div 4096, (op \div 256) % 16, (op \div 16) % 16, op % 16 >>
        n0 == nb[1]
        x == nb[2]
        y == nb[3]
        n == nb[4]
        kk == op % 256
        nnn == op % 4096
        vx == state.v[x]
        vy == state.v[y]
    IN  CASE nb = << 0, 0, 14, 0 >> ->
                Arm(TRUE, [state EXCEPT !.frame_buffer = EmptyFrame,
                                        !.draw_flag = TRUE], 2)
          [] nb = << 0, 0, 14, 14 >> ->
                IF state.sp >= STACK_SIZE THEN Arm(FALSE, state, 2)
                ELSE Arm(ArithOk(state.sp - 1, 8, checks),
                         [state EXCEPT !.pc = state.stack[state.sp],
                                       !.sp = Wrap(state.sp - 1, 8)], 2)
          [] n0 = 1 -> Arm(TRUE, [state EXCEPT !.pc = nnn], 0)
          [] n0 = 2 ->
                LET sp == Wrap(state.sp + 1, 8)
                IN  IF ~ArithOk(state.sp + 1, 8, checks) \/ sp >= STACK_SIZE
                    THEN Arm(FALSE, state, 0)
                    ELSE Arm(TRUE, [state EXCEPT !.sp = sp,
                                                 !.stack[sp] = state.pc,
                                                 !.pc = nnn], 0)
          [] n0 = 3 -> SkipNext(state, vx = kk, checks)
          [] n0 = 4 -> SkipNext(state, vx # kk, checks)
          [] n0 = 5 /\ n = 0 -> SkipNext(state, vx = vy, checks)
          [] n0 = 6 -> Arm(TRUE, [state EXCEPT !.v[x] = kk], 2)
          [] n0 = 7 -> Arm(TRUE, [state EXCEPT !.v[x] = Wrap(vx + kk, 8)], 2)
          [] n0 = 8 /\ n = 0 -> Arm(TRUE, [state EXCEPT !.v[x] = vy], 2)
          [] n0 = 8 /\ n = 1 -> Arm(TRUE, [state EXCEPT !.v[x] = BitOr8(vx, vy)], 2)
          [] n0 = 8 /\ n = 2 -> Arm(TRUE, [state EXCEPT !.v[x] = BitAnd8(vx, vy)], 2)
          [] n0 = 8 /\ n = 3 -> Arm(TRUE, [state EXCEPT !.v[x] = BitXor8(vx, vy)], 2)
          [] n0 = 8 /\ n = 4 ->
                Arm(TRUE, SetFlagThenVx(state, x, IF vx + vy > 255 THEN 1 ELSE 0,
                                        Wrap(vx + vy, 8)), 2)
          [] n0 = 8 /\ n = 5 ->
                Arm(TRUE, SetFlagThenVx(state, x, IF vx - vy < 0 THEN 0 ELSE 1,
                                        Wrap(vx - vy, 8)), 2)
          [] n0 = 8 /\ n = 6 ->
                LET flagged == [state EXCEPT !.v[15] = BitAnd8(vx, 1)]
                IN  Arm(TRUE, [flagged EXCEPT !.v[x] = flagged.v[x] \div 2], 2)
          [] n0 = 8 /\ n = 7 ->
                Arm(TRUE, SetFlagThenVx(state, x, IF vy - vx < 0 THEN 0 ELSE 1,
                                        Wrap(vy - vx, 8)), 2)
          [] n0 = 8 /\ n = 14 ->
                Arm(TRUE, SetFlagThenVx(state, x, IF vx * 2 > 255 THEN 1 ELSE 0,
                                        Wrap(vx * 2, 8)), 2)
          [] n0 = 9 /\ n = 0 -> SkipNext(state, vx # vy, checks)
          [] n0 = 10 -> Arm(TRUE, [state EXCEPT !.i = nnn], 2)
          [] n0 = 11 -> Arm(TRUE, [state EXCEPT !.pc = state.v[0] + nnn], 0)
          [] n0 = 12 ->
                Arm(TRUE, [state EXCEPT !.v[x] = BitAnd8(rand_byte, kk)], 2)
          [] n0 = 13 -> draw_in_place(op, state)
          [] n0 = 14 /\ y = 9 /\ n = 14 ->
                IF vx >= NUM_KEYS THEN Arm(FALSE, state, 2)
                ELSE SkipNext(state, keys[vx] = 1, checks)
          [] n0 = 14 /\ y = 10 /\ n = 1 ->
                IF vx >= NUM_KEYS THEN Arm(FALSE, state, 2)
                ELSE SkipNext(state, keys[vx] = 0, checks)
          [] n0 = 15 /\ y = 0 /\ n = 7 ->
                Arm(TRUE, [state EXCEPT !.v[x] = state.delay_timer], 2)
          [] n0 = 15 /\ y = 0 /\ n = 10 ->
                Arm(TRUE, [state EXCEPT !.register_needing_key = x], 2)
          [] n0 = 15 /\ y = 1 /\ n = 5 ->
                Arm(TRUE, [state EXCEPT !.delay_timer = vx], 2)
          [] n0 = 15 /\ y = 1 /\ n = 8 ->
                Arm(TRUE, [state EXCEPT !.sound_timer = vx], 2)
          [] n0 = 15 /\ y = 1 /\ n = 14 ->
                Arm(ArithOk(state.i + vx, 16, checks),
                    [state EXCEPT !.i = Wrap(state.i + vx, 16)], 2)
          [] n0 = 15 /\ y = 2 /\ n = 9 -> Arm(TRUE, [state EXCEPT !.i = vx * 5], 2)
          [] n0 = 15 /\ y = 3 /\ n = 3 ->
                LET digits == << (vx \div 100) % 10, (vx \div 10) % 10, vx % 10 >>
                IN  IF state.i + 3 > MEMORY_SIZE THEN Arm(FALSE, state, 2)
                    ELSE Arm(TRUE,
                             [state EXCEPT !.memory =
                                Store(state.memory,
                                      [a \in state.i..(state.i + 2) |->
                                          digits[a - state.i + 1]])], 2)
          [] n0 = 15 /\ y = 5 /\ n = 5 ->
                IF state.i + 1 + x > MEMORY_SIZE THEN Arm(FALSE, state, 2)
                ELSE Arm(TRUE,
                         [state EXCEPT !.memory =
                            Store(state.memory,
                                  [a \in state.i..(state.i + x) |->
                                      state.v[a - state.i]])], 2)
          [] n0 = 15 /\ y = 6 /\ n = 5 ->
                IF state.i + 1 + x > MEMORY_SIZE THEN Arm(FALSE, state, 2)
                ELSE Arm(TRUE,
                         [state EXCEPT !.v =
                            [r \in 0..(NUM_REGISTERS - 1) |->
                                IF r <= x THEN Cell(state.memory, state.i + r)
                                ELSE state.v[r]]], 2)
          [] OTHER -> Arm(FALSE, state, 2)

\* Opcode::execute: the match, then `state.pc += pc_bump`
opcode_execute(op, state, keys, checks, rand_byte) ==
    LET arm == opcode_arm(op, state, keys, checks, rand_byte)
    IN  Res(arm.ok /\ ArithOk(arm.st.pc + arm.bump, 16, checks),
            [arm.st EXCEPT !.pc = Wrap(arm.st.pc + arm.bump, 16)])

(***************************************************************************)
(* chip8.rs: the Chip8 machine.  The operators below are the methods as    *)
(* functions of the fields they read; the actions further down apply them. *)
(***************************************************************************)
Take(seq, k) == SubSeq(seq, 1, IF k < Len(seq) THEN k ELSE Len(seq))

\* read_exact into memory[0x200..]: the reader's bytes are copied in order
\* until the slice is full (Ok) or the reader is exhausted first (Err)
load_rom(state, rom) ==
    LET room == MEMORY_SIZE - ROM_START
        copied == IF Len(rom) < room THEN Len(rom) ELSE room
    IN  [ result |-> IF Len(rom) >= room THEN "Ok" ELSE "Err",
          state |-> [state EXCEPT !.memory =
                        Store(state.memory,
                              [a \in ROM_START..(ROM_START + copied - 1) |->
                                  rom[a - ROM_START + 1]])] ]

\* Option<FrameBuffer>: `some` tells Some(frame) from None
NoFrame == [some |-> FALSE, frame |-> EmptyFrame]
get_frame(state) ==
    IF state.draw_flag THEN [some |-> TRUE, frame |-> state.frame_buffer]
    ELSE NoFrame

\* key_press that stores the key but stays suspended
key_press_no_resume(state, keys, key) ==
    [ pressed_keys |-> [keys EXCEPT ![key] = 1],
      state |-> IF state.register_needing_key # None
                THEN [state EXCEPT !.v[state.register_needing_key] = key]
                ELSE state ]

key_press(state, keys, key) ==
    [ pressed_keys |-> [keys EXCEPT ![key] = 1],
      state |-> IF state.register_needing_key # None
                THEN [state EXCEPT !.v[state.register_needing_key] = key,
                                   !.register_needing_key = None]
                ELSE state ]

key_release(keys, key) == [keys EXCEPT ![key] = 0]


\* get_op that combines the two bytes low byte first
get_op_little_endian(state) ==
    IF state.pc + 1 >= MEMORY_SIZE THEN [ok |-> FALSE, op |-> 0]
    ELSE [ok |-> TRUE,
          op |-> Cell(state.memory, state.pc + 1) * 256 + Cell(state.memory, state.pc)]

\* the two memory reads of get_op are bounds-checked
get_op(state) ==
    IF state.pc + 1 >= MEMORY_SIZE THEN [ok |-> FALSE, op |-> 0]
    ELSE [ok |-> TRUE,
          op |-> Cell(state.memory, state.pc) * 256 + Cell(state.memory, state.pc + 1)]

\* save_state that never drops an entry
save_state_no_evict(history, state) == << state >> \o history

\* save_state that drops the newest entry (pop_front) when full
save_state_evict_newest(history, state) ==
    LET kept == IF Len(history) = MAX_SAVED_STATES THEN Tail(history) ELSE history
    IN  << state >> \o kept

save_state(history, state) ==
    LET kept == IF Len(history) = MAX_SAVED_STATES
                THEN SubSeq(history, 1, Len(history) - 1)
                ELSE history
    IN  << state >> \o kept

\* cpu_cycle that executes whether or not a key is awaited
cpu_cycle_no_wait(state, keys, checks, rand_byte) ==
    LET fetched == get_op(state)
        instruction == from_op(fetched.op)
    IN  IF ~fetched.ok \/ instruction = "Panic" THEN Res(FALSE, state)
        ELSE execute(instruction, fetched.op, state, keys, checks, rand_byte)

\* the `if register_needing_key == None { ... }` block of advance_cpu
cpu_cycle(state, keys, checks, rand_byte) ==
    IF state.register_needing_key # None THEN Res(TRUE, state)
    ELSE LET fetched == get_op(state)
             instruction == from_op(fetched.op)
         IN  IF ~fetched.ok \/ instruction = "Panic" THEN Res(FALSE, state)
             ELSE execute(instruction, fetched.op, state, keys, checks, rand_byte)


\* advance_cpu that hands the instruction an empty key array instead of
\* self.pressed_keys
advance_cpu_no_keys(state, history, keys, checks, rand_byte) ==
    LET res == cpu_cycle(state, [k \in 0..(NUM_KEYS - 1) |-> 0], checks, rand_byte)
    IN  [ ok |-> res.ok,
          state |-> res.st,
          previous_states |-> IF res.ok THEN save_state(history, res.st) ELSE history ]


\* advance_cpu that saves the state it found rather than the state it leaves
advance_cpu_saves_before(state, history, keys, checks, rand_byte) ==
    LET res == cpu_cycle(state, keys, checks, rand_byte)
    IN  [ ok |-> res.ok,
          state |-> res.st,
          previous_states |-> IF res.ok THEN save_state(history, state) ELSE history ]

advance_cpu(state, history, keys, checks, rand_byte) ==
    LET res == cpu_cycle(state, keys, checks, rand_byte)
    IN  [ ok |-> res.ok,
          state |-> res.st,
          previous_states |-> IF res.ok THEN save_state(history, res.st) ELSE history ]

\* reverse_cpu that falls back to a fresh State when there is no history
reverse_cpu_reset(state, history) ==
    IF Len(history) > 0
    THEN [ state |-> Head(history), previous_states |-> Tail(history) ]
    ELSE [ state |-> StateNew, previous_states |-> history ]

reverse_cpu(state, history) ==
    IF Len(history) > 0
    THEN [ state |-> Head(history), previous_states |-> Tail(history) ]
    ELSE [ state |-> state, previous_states |-> history ]

\* advance_timers with an unguarded, wrapping decrement
advance_timers_wrapping(state) ==
    IF state.delay_counter = 0
    THEN [state EXCEPT
            !.delay_counter = CPU_CYCLES_PER_TIMER_CYCLE,
            !.delay_timer = Wrap(state.delay_timer - 1, 8),
            !.sound_timer = Wrap(state.sound_timer - 1, 8)]
    ELSE [state EXCEPT !.delay_counter = state.delay_counter - 1]


\* advance_timers that never reloads the sub-cycle counter: it counts down
\* through 0 and wraps
advance_timers_no_reload(state) ==
    IF state.delay_counter = 0
    THEN [state EXCEPT
            !.delay_counter = Wrap(state.delay_counter - 1, 8),
            !.delay_timer = IF state.delay_timer > 0 THEN state.delay_timer - 1
                            ELSE state.delay_timer,
            !.sound_timer = IF state.sound_timer > 0 THEN state.sound_timer - 1
                            ELSE state.sound_timer]
    ELSE [state EXCEPT !.delay_counter = state.delay_counter - 1]

advance_timers(state) ==
    IF state.delay_counter = 0
    THEN [state EXCEPT
            !.delay_counter = CPU_CYCLES_PER_TIMER_CYCLE,
            !.delay_timer = IF state.delay_timer > 0 THEN state.delay_timer - 1
                            ELSE state.delay_timer,
            !.sound_timer = IF state.sound_timer > 0 THEN state.sound_timer - 1
                            ELSE state.sound_timer]
    ELSE [state EXCEPT !.delay_counter = state.delay_counter - 1]

(***************************************************************************)
(* The ROMs the runs load.                                                 *)
(***************************************************************************)
\* F10A 00E0 1200: wait for a key into V1, clear the screen, start over
RomAwaitKey == << 241, 10, 0, 224, 18, 0 >>
\* 6102 F115 F118 1200: V1 = 2, delay_timer = V1, sound_timer = V1, start over
RomTimers == << 97, 2, 241, 21, 241, 24, 18, 0 >>
\* D015 00E0 D015 1200: draw the glyph at I = 0 (5 rows) at (V0, V1), clear,
\* draw again, start over
RomDraw == << 208, 21, 0, 224, 208, 21, 18, 0 >>
\* 2204 00EE 00EE: call 0x204, return from it to 0x202, return again with an
\* empty stack
RomCallReturn == << 34, 4, 0, 238, 0, 238 >>
\* an empty file
RomEmpty == << >>
ROMS == { RomAwaitKey, RomTimers, RomDraw, RomCallReturn, RomEmpty }

(***************************************************************************)
(* The state of a run.  state, previous_states and pressed_keys are the    *)
(* fields of Chip8.  checks is the build's overflow-check setting,         *)
(* rom_result the value load_rom returned, frame the value the last        *)
(* get_frame returned, panicked whether a panic has ended the run.         *)
(* The remaining variables record the calls made, for the properties:      *)
(*   last         the last call and, for advance_cpu, what it executed     *)
(*   fwd, rev     the current run of fwd consecutive advance_cpu calls     *)
(*                followed by rev consecutive reverse_cpu calls            *)
(*   run_start    the state before the first advance_cpu of that run       *)
(*   saved        the states saved by the advance_cpu calls so far         *)
(*   rewound      whether reverse_cpu has been called                      *)
(*   fb_mutated   whether clr or draw executed since the last get_frame    *)
(*   timer_window which of the last (at most 8) consecutive advance_timers *)
(*                calls decremented the timers                             *)
(*   tcalls       the number of advance_timers calls                       *)
(***************************************************************************)
VARIABLES state, previous_states, pressed_keys, checks, rom_result, frame,
          panicked, last, fwd, rev, run_start, saved, rewound, fb_mutated,
          timer_window, tcalls

machine == << state, previous_states, pressed_keys >>
observed == << last, fwd, rev, run_start, saved, rewound, fb_mutated,
               timer_window, tcalls >>
vars == << state, previous_states, pressed_keys, checks, rom_result, frame,
           panicked, last, fwd, rev, run_start, saved, rewound, fb_mutated,
           timer_window, tcalls >>

Keys == (NUM_KEYS - KeyCount)..(NUM_KEYS - 1)
NoCall == [name |-> "new", key |-> None, op |-> None, instruction |-> "none"]
Called(name, key) == [name |-> name, key |-> key, op |-> None, instruction |-> "none"]
NoRun == /\ fwd' = 0
         /\ rev' = 0
         /\ run_start' = StateNew

Init ==
    /\ state = StateNew
    /\ previous_states = << >>
    /\ pressed_keys = [k \in 0..(NUM_KEYS - 1) |-> 0]
    /\ checks \in BOOLEAN
    /\ rom_result = "unloaded"
    /\ frame = NoFrame
    /\ panicked = FALSE
    /\ last = NoCall
    /\ fwd = 0
    /\ rev = 0
    /\ run_start = StateNew
    /\ saved = << >>
    /\ rewound = FALSE
    /\ fb_mutated = FALSE
    /\ timer_window = << >>
    /\ tcalls = 0

\* run.rs builds the machine and loads the ROM before the event loop starts
Running == rom_result # "unloaded" /\ ~panicked

LoadRom(rom) ==
    /\ rom_result = "unloaded"
    /\ ~panicked
    /\ LET res == load_rom(state, rom)
       IN  /\ state' = res.state
           /\ rom_result' = res.result
    /\ last' = Called("load_rom", None)
    /\ UNCHANGED << previous_states, pressed_keys, checks, frame, panicked,
                    fwd, rev, run_start, saved, rewound, fb_mutated,
                    timer_window, tcalls >>

GetFrame ==
    /\ Running
    /\ frame' = get_frame(state)
    /\ last' = Called("get_frame", None)
    /\ fb_mutated' = FALSE
    /\ timer_window' = << >>
    /\ NoRun
    /\ UNCHANGED << state, previous_states, pressed_keys, checks, rom_result,
                    panicked, saved, rewound, tcalls >>

KeyPress(key) ==
    /\ Running
    /\ LET res == key_press(state, pressed_keys, key)
       IN  /\ state' = res.state
           /\ pressed_keys' = res.pressed_keys
    /\ last' = Called("key_press", key)
    /\ timer_window' = << >>
    /\ NoRun
    /\ UNCHANGED << previous_states, checks, rom_result, frame, panicked,
                    saved, rewound, fb_mutated, tcalls >>

KeyRelease(key) ==
    /\ Running
    /\ pressed_keys' = key_release(pressed_keys, key)
    /\ last' = Called("key_release", key)
    /\ timer_window' = << >>
    /\ NoRun
    /\ UNCHANGED << state, previous_states, checks, rom_result, frame, panicked,
                    saved, rewound, fb_mutated, tcalls >>

\* the bytes rand::random() may return; only rand reads the byte
RandBytes ==
    IF state.register_needing_key = None /\ get_op(state).ok
          /\ from_op(get_op(state).op) = "Rand"
    THEN 0..255
    ELSE {0}

\* advance_cpu, called while fewer than limit cycles have been saved
AdvanceCpuWithin(limit) ==
    /\ Running
    /\ Len(saved) < limit
    /\ \E rand_byte \in RandBytes :
        LET res == advance_cpu(state, previous_states, pressed_keys, checks, rand_byte)
            executes == state.register_needing_key = None /\ get_op(state).ok
            op == IF executes THEN get_op(state).op ELSE None
            instruction == IF executes THEN from_op(op) ELSE "none"
        IN  /\ last' = [name |-> "advance_cpu", key |-> None, op |-> op,
                        instruction |-> instruction]
            /\ IF res.ok
               THEN /\ state' = res.state
                    /\ previous_states' = res.previous_states
                    /\ saved' = Append(saved, res.state)
                    /\ fb_mutated' = (fb_mutated \/ instruction \in {"Clr", "Draw"})
                    /\ IF fwd > 0 /\ rev = 0
                       THEN /\ fwd' = fwd + 1
                            /\ UNCHANGED << rev, run_start >>
                       ELSE /\ fwd' = 1
                            /\ rev' = 0
                            /\ run_start' = state
                    /\ UNCHANGED panicked
               ELSE /\ panicked' = TRUE
                    /\ UNCHANGED << state, previous_states, saved, fb_mutated,
                                    fwd, rev, run_start >>
    /\ timer_window' = << >>
    /\ UNCHANGED << pressed_keys, checks, rom_result, frame, rewound, tcalls >>

AdvanceCpu == AdvanceCpuWithin(MaxCycles)

ReverseCpu ==
    /\ Running
    /\ LET res == reverse_cpu(state, previous_states)
       IN  /\ state' = res.state
           /\ previous_states' = res.previous_states
    /\ last' = Called("reverse_cpu", None)
    /\ rewound' = TRUE
    /\ IF fwd > 0 /\ rev < fwd
       THEN /\ rev' = rev + 1
            /\ UNCHANGED << fwd, run_start >>
       ELSE NoRun
    /\ timer_window' = << >>
    /\ UNCHANGED << pressed_keys, checks, rom_result, frame, panicked, saved,
                    fb_mutated, tcalls >>

AdvanceTimers(limit) ==
    /\ Running
    /\ tcalls < limit
    /\ state' = advance_timers(state)
    /\ last' = Called("advance_timers", None)
    /\ tcalls' = tcalls + 1
    /\ LET window == Append(timer_window, state.delay_counter = 0)
       IN  timer_window' = IF Len(window) > CPU_CYCLES_PER_TIMER_CYCLE
                           THEN Tail(window) ELSE window
    /\ NoRun
    /\ UNCHANGED << previous_states, pressed_keys, checks, rom_result, frame,
                    panicked, saved, rewound, fb_mutated >>

Load == \E rom \in ROMS : LoadRom(rom)
Press == \E key \in Keys : KeyPress(key)
Release == \E key \in Keys : KeyRelease(key)
Timers == AdvanceTimers(MaxTimerCalls)

\* the operations that change the machine, in any order
Next ==
    \/ Load
    \/ AdvanceCpu
    \/ ReverseCpu
    \/ Timers
    \/ Press
    \/ Release

Spec == Init /\ [][Next]_vars

\* cycles and rewinds with the frame consumer polling get_frame
NextFrame ==
    \/ Load
    \/ AdvanceCpu
    \/ ReverseCpu
    \/ GetFrame

SpecFrame == Init /\ [][NextFrame]_vars

\* cycles and timer calls only: long runs of advance_timers
TimerRun == AdvanceTimers(MaxTimerRun)

NextTimers ==
    \/ Load
    \/ AdvanceCpu
    \/ TimerRun

SpecTimers == Init /\ [][NextTimers]_vars

(***************************************************************************)
(* ROM files about as long as the room above 0x200.  run.rs hands load_rom *)
(* a reader over the whole file, so the file's length is the reader's.     *)
(***************************************************************************)
\* how far the long files' lengths lie from the room above 0x200
MaxRomDelta == 1

ROM_ROOM == MEMORY_SIZE - ROM_START

\* a file of len bytes: one opcode, zero filler, and nonzero bytes from just
\* below the end of memory onwards
LongRom(len, first) ==
    [k \in 1..len |->
        IF k = 1 THEN first \div 256
        ELSE IF k = 2 THEN first % 256
        ELSE IF k >= ROM_ROOM - MaxRomDelta THEN 1 + (k % 255)
        ELSE 0]

\* 00E0 (clr), 1200 (jump to itself), 6102 (V1 = 2), 2200 (call itself)
RomStarts == { 224, 4608, 24834, 8704 }

LongRoms ==
    { LongRom(len, first) :
        len \in (ROM_ROOM - MaxRomDelta)..(ROM_ROOM + MaxRomDelta),
        first \in RomStarts }

LoadFile ==
    /\ rom_result = "unloaded"
    /\ \E rom \in ROMS \cup LongRoms : LoadRom(rom)

\* files of any length, then cycles and rewinds
NextLoad ==
    \/ LoadFile
    \/ AdvanceCpu
    \/ ReverseCpu

SpecLoad == Init /\ [][NextLoad]_vars

(***************************************************************************)
(* One-instruction programs: an opcode as the two bytes of a ROM, fetched  *)
(* and decoded by the first cycle.  The decoder reads the first nibble and *)
(* the low byte, and the x nibble only to tell 00E0 and 00EE from the      *)
(* other 0xxx words: the opcodes take every first nibble and low byte,     *)
(* with x from OperandX.                                                   *)
(***************************************************************************)
OpBytes(op) == << op \div 256, op % 256 >>
OperandX == { 0, 1, 15 }
AllOpcodes ==
    { n0 * 4096 + x * 256 + low : n0 \in 0..15, x \in OperandX, low \in 0..255 }

LoadOpcode ==
    /\ rom_result = "unloaded"
    /\ \E op \in AllOpcodes : LoadRom(OpBytes(op))

NextDecode ==
    \/ LoadOpcode
    \/ AdvanceCpu

SpecDecode == Init /\ [][NextDecode]_vars

(***************************************************************************)
(* The operations as functions of their inputs.  An operation reads the    *)
(* opcode, the State and the pressed keys; the runs below start from a     *)
(* machine a program has prepared (registers, I, stack and frame buffer    *)
(* set by earlier instructions, the opcode under test next at pc, twice or *)
(* followed by its counterpart) and cycle from there.                      *)
(***************************************************************************)
Op(n0, x, y, n) == n0 * 4096 + x * 256 + y * 16 + n

\* register values: zero, one, the top bit, all bits (as a coordinate 255
\* is column 63, row 31, and 128 is column 0, row 0)
Vals == { 0, 1, 128, 255 }
\* the (x, y) operands: distinct registers, VF as Vx, VF as Vy, Vx = Vy
OperandXY == { << 1, 2 >>, << 15, 2 >>, << 1, 15 >>, << 2, 2 >> }
\* immediates
OperandKK == { 0, 1, 255 }
\* sprite heights
SpriteRows == { 0, 1, 5, 15 }
\* I: the first glyph of the font, unwritten memory, the last two bytes
IVals == { 0, 768, MEMORY_SIZE - 2 }
\* the largest I: addi adds to I without bound (0x60FF 0xF01E 0x1202 reaches
\* 257 * 255 = 65535 from I = 0)
I_LAST == 65535
\* sp: no call pending, one, one below the last slot, the last slot
SpVals == { 0, 1, STACK_SIZE - 2, STACK_SIZE - 1 }

OPCODES ==
    { Op(0, 0, 14, 0), Op(0, 0, 14, 14), Op(1, 2, 15, 0), Op(2, 2, 15, 0),
      Op(11, 2, 15, 0), Op(10, 1, 2, 3), Op(12, 1, 0, 15) }
    \cup { Op(n0, x, kk \div 16, kk % 16) :
                n0 \in { 3, 4, 6, 7 }, x \in { 1, 15 }, kk \in OperandKK }
    \cup { Op(n0, xy[1], xy[2], 0) : n0 \in { 5, 9 }, xy \in OperandXY }
    \cup { Op(8, xy[1], xy[2], n) : xy \in OperandXY, n \in (0..7) \cup { 14 } }
    \cup { Op(13, xy[1], xy[2], n) :
                xy \in OperandXY, n \in SpriteRows }
    \cup { Op(14, x, 9, 14) : x \in { 1, 15 } }
    \cup { Op(14, x, 10, 1) : x \in { 1, 15 } }
    \cup { Op(15, x, low \div 16, low % 16) :
                x \in { 1, 15 }, low \in { 7, 10, 21, 24, 30, 41, 51 } }
    \cup { Op(15, x, low \div 16, low % 16) : x \in { 1, 2, 15 }, low \in { 85, 101 } }

\* the instruction after the one under test: the same opcode again, or the
\* `read` of the same registers after a `stor`
Follow(op) == IF from_op(op) = "Stor" THEN Op(15, op_x(op), 6, 5) ELSE op

\* glyph 0 of the font drawn at the origin of an empty screen, and the
\* bottom-right pixel alone
FrameGlyph == draw(Op(13, 0, 0, 5), StateNew, << >>, FALSE).st.frame_buffer
FrameCorner == Store(EmptyFrame, [cell \in { << DISPLAY_HEIGHT - 1, DISPLAY_WIDTH - 1 >> } |-> 1])
Frames == { EmptyFrame, FrameGlyph, FrameCorner }

\* the inputs an instruction depends on; the others keep one value
UsesI(instruction) ==
    instruction \in { "Draw", "Addi", "Bcd", "Stor", "Read" }
UsesStack(instruction) == instruction \in { "Call", "Rts" }
UsesV0(instruction) == instruction \in { "Jumpi", "Stor", "Read" }
\* rand overwrites Vx with any byte: its runs start from cleared registers

Prepared(op, a, b, c, v0, i, sp, frame_buffer) ==
    [ load_rom(StateNew, OpBytes(op) \o OpBytes(Follow(op))).state EXCEPT
        !.v = [r \in 0..(NUM_REGISTERS - 1) |->
                 CASE r = 0 -> v0
                   [] r = 1 -> a
                   [] r = 2 -> b
                   [] r = 15 -> c
                   [] OTHER -> 0],
        !.i = i,
        !.sp = sp,
        \* the return addresses of sp nested calls
        !.stack = [k \in 0..(STACK_SIZE - 1) |->
                     IF k >= 1 /\ k <= sp THEN 768 + 2 * k ELSE 0],
        !.frame_buffer = frame_buffer,
        !.draw_flag = frame_buffer # EmptyFrame ]

InputsFor(op) ==
    LET instruction == from_op(op)
    IN  { Prepared(op, a, b, c, v0, i, sp, frame_buffer) :
            a \in IF instruction = "Rand" THEN { 0 } ELSE Vals,
            b \in IF instruction = "Rand" THEN { 0 } ELSE Vals,
            c \in { 0, 1 },
            v0 \in IF UsesV0(instruction) THEN { 0, 7 } ELSE { 7 },
            i \in IF instruction = "Addi" THEN IVals \cup { I_LAST }
                 ELSE IF instruction = "Bcd" THEN IVals \cup { MEMORY_SIZE - 3 }
                 ELSE IF UsesI(instruction) THEN IVals ELSE { 768 },
            sp \in IF UsesStack(instruction) THEN SpVals ELSE { 1 },
            frame_buffer \in IF instruction \in { "Draw", "Clr" }
                            THEN Frames ELSE { FrameCorner } }

\* key 1 is held down
KeysHeld == [k \in 0..(NUM_KEYS - 1) |-> IF k = 1 THEN 1 ELSE 0]

InitOps ==
    /\ \E op \in OPCODES : \E input \in InputsFor(op) :
            /\ state = input
            /\ previous_states = << input >>
            /\ saved = << input >>
    /\ pressed_keys = KeysHeld
    /\ checks \in BOOLEAN
    /\ rom_result = "Err"
    /\ frame = NoFrame
    /\ panicked = FALSE
    /\ last = Called("key_press", 1)
    /\ fwd = 0
    /\ rev = 0
    /\ run_start = StateNew
    /\ rewound = FALSE
    /\ fb_mutated = FALSE
    /\ timer_window = << >>
    /\ tcalls = 0

NextOps == AdvanceCpu

SpecOps == InitOps /\ [][NextOps]_vars

(***************************************************************************)
(* Programs that return with no call pending.  A program can write its own *)
(* code below 0x200: RomReturnTwice stores 00 EE over the bytes at 2 and 3 *)
(* (I is 0 after construction), and its return at sp = 0 continues at      *)
(* stack[0] + 2 = 2.                                                       *)
(***************************************************************************)
\* 63EE (V3 = 0xEE), F355 (memory[0..3] = V0..V3), 00EE
RomReturnTwice == << 99, 238, 243, 85, 0, 238 >>
\* 2200: a call of itself, one level deeper each cycle
RomCallSelf == << 34, 0 >>
\* 2204 (call 0x204), 1202, 6105 (V1 = 5), 00EE: a subroutine that works
\* and returns
RomCallWork == << 34, 4, 18, 2, 97, 5, 0, 238 >>
\* 2204, 1202, 2208 (call 0x208 from the subroutine), 00EE, 00EE
RomNestedCalls == << 34, 4, 18, 2, 34, 8, 0, 238, 0, 238 >>
StackRoms ==
    { RomReturnTwice, RomCallSelf, RomCallReturn, RomCallWork, RomNestedCalls }

\* how many cycles the stack programs run
MaxStackCycles == 4

LoadStackRom ==
    /\ rom_result = "unloaded"
    /\ \E rom \in StackRoms : LoadRom(rom)

StackCycle == AdvanceCpuWithin(MaxStackCycles)

NextStack ==
    \/ LoadStackRom
    \/ StackCycle
    \/ ReverseCpu

SpecStack == Init /\ [][NextStack]_vars

(***************************************************************************)
(* A program that polls the last key, run with key events and rewinds in   *)
(* between the cycles.                                                     *)
(***************************************************************************)
\* 610F (V1 = 15), E19E (skip if key V1 is pressed), 1200, 1200
RomPollKey == << 97, 15, 225, 158, 18, 0, 18, 0 >>

LoadPollKey ==
    /\ rom_result = "unloaded"
    /\ LoadRom(RomPollKey)

NextKeys ==
    \/ LoadPollKey
    \/ AdvanceCpu
    \/ ReverseCpu
    \/ Press
    \/ Release

SpecKeys == Init /\ [][NextKeys]_vars

(***************************************************************************)
(* Properties.                                                             *)
(***************************************************************************)
Min(a, b) == IF a < b THEN a ELSE b
Awaiting(st) == st.register_needing_key # None
\* the step is a call of the named method that returned (did not panic)
Returned(name) == last'.name = name /\ ~panicked'

\* C1: after N forward cycles (advance_cpu) followed by N reverse_cpu calls,
\* 1 <= N <= MAX_SAVED_STATES, nothing interleaved, the current state equals
\* the state before the first forward cycle on all fields.
C1_RewindRoundTrip ==
    (fwd >= 1 /\ fwd <= MAX_SAVED_STATES /\ rev = fwd) => state = run_start

\* C2: the history never holds more than MAX_SAVED_STATES entries, and after
\* MAX_SAVED_STATES + 1 forward cycles it holds exactly MAX_SAVED_STATES.
C2_HistoryBounded ==
    /\ Len(previous_states) <= MAX_SAVED_STATES
    /\ (fwd >= MAX_SAVED_STATES + 1 /\ rev = 0)
          => Len(previous_states) = MAX_SAVED_STATES
    /\ (Len(saved) >= MAX_SAVED_STATES + 1 /\ ~rewound)
          => Len(previous_states) = MAX_SAVED_STATES

C2_Witness ==
    /\ fwd = MAX_SAVED_STATES + 1
    /\ rev = 0
    /\ Len(previous_states) = MAX_SAVED_STATES

\* C3: with no rewinds, after k forward cycles the history holds exactly the
\* min(k, MAX_SAVED_STATES) most recently saved states, most recent first:
\* the entry at position j from the front is the state saved by cycle k - j,
\* so the entries dropped at capacity are the ones saved earliest.
C3_HistoryOrder ==
    ~rewound =>
        LET k == Len(saved)
            held == Min(k, MAX_SAVED_STATES)
        IN  /\ Len(previous_states) = held
            /\ \A j \in 0..(held - 1) : previous_states[j + 1] = saved[k - j]

C3_Witness ==
    /\ ~rewound
    /\ Len(saved) = MAX_SAVED_STATES + 1
    /\ \A j \in 1..Len(previous_states) : previous_states[j] # saved[1]
    /\ previous_states[1] # previous_states[2]

\* C4: while a key is awaited, advance_cpu executes nothing: the State is
\* unchanged on every field, and the unchanged state is still pushed onto the
\* front of the history (the oldest entry leaving when the history is full).
C4_NoCycleWhileAwaiting ==
    [][(Returned("advance_cpu") /\ Awaiting(state)) =>
            /\ state' = state
            /\ pressed_keys' = pressed_keys
            /\ previous_states' =
                    << state >> \o Take(previous_states, MAX_SAVED_STATES - 1)
            /\ Len(previous_states') = Min(Len(previous_states) + 1, MAX_SAVED_STATES)
      ]_vars

C4_Witness ==
    /\ last.name = "advance_cpu"
    /\ last.instruction = "none"
    /\ ~panicked
    /\ Awaiting(state)
    /\ Len(previous_states) >= 2
    /\ previous_states[1] = state
    /\ previous_states[2] = state

\* C5: the await-key protocol.  advance_cpu executing Fx0A sets
\* register_needing_key = Some(x) and moves pc on by 2 in that cycle; an
\* advance_cpu while a key is awaited leaves pc where it is and the machine
\* waiting; key_press(k) stores k in Vx and clears register_needing_key
\* without executing anything (pc and the history stay); the advance_cpu
\* after it fetches and executes the opcode at the pc reached by Fx0A.
C5_AwaitKeyProtocol ==
    [][/\ (Returned("advance_cpu") /\ last'.instruction = "Keyd") =>
            /\ state'.register_needing_key = op_x(last'.op)
            /\ state'.pc = state.pc + 2
       /\ (Returned("advance_cpu") /\ Awaiting(state)) =>
            /\ state'.pc = state.pc
            /\ state'.register_needing_key = state.register_needing_key
       /\ (Returned("key_press") /\ Awaiting(state)) =>
            /\ state'.v[state.register_needing_key] = last'.key
            /\ state'.register_needing_key = None
            /\ state'.pc = state.pc
            /\ previous_states' = previous_states
       /\ (Returned("advance_cpu") /\ last.name = "key_press" /\ ~Awaiting(state)) =>
            /\ last'.op = Cell(state.memory, state.pc) * 256
                            + Cell(state.memory, state.pc + 1)
            /\ last'.instruction = from_op(last'.op)
            /\ \E rand_byte \in RandBytes :
                    state' = execute(last'.instruction, last'.op, state,
                                     pressed_keys, checks, rand_byte).st
      ]_vars

\* the whole protocol has run: Fx0A (x = 1) was executed at 0x200, a key was
\* pressed, and the instruction after it (00E0) has executed
C5_Witness ==
    /\ last.name = "advance_cpu"
    /\ last.instruction = "Clr"
    /\ ~panicked
    /\ state.pc = ROM_START + 4
    /\ state.v[1] \in Keys
    /\ ~Awaiting(state)

\* C6: key_press(k) sets pressed_keys[k] = 1; when a register awaits a key it
\* also stores k there and clears register_needing_key, otherwise the State
\* is unchanged; pc, memory, stack and the history are unchanged either way.
\* key_release(k) sets pressed_keys[k] = 0 and changes nothing else.
C6_KeyEvents ==
    [][/\ Returned("key_press") =>
            /\ pressed_keys' = [pressed_keys EXCEPT ![last'.key] = 1]
            /\ IF Awaiting(state)
               THEN state' = [state EXCEPT
                                !.v[state.register_needing_key] = last'.key,
                                !.register_needing_key = None]
               ELSE state' = state
            /\ state'.pc = state.pc
            /\ state'.memory = state.memory
            /\ state'.stack = state.stack
            /\ previous_states' = previous_states
       /\ Returned("key_release") =>
            /\ pressed_keys' = [pressed_keys EXCEPT ![last'.key] = 0]
            /\ state' = state
            /\ previous_states' = previous_states
      ]_vars

\* a key_press has resumed a machine that awaited a key for V1
C6_Witness ==
    /\ last.name = "key_press"
    /\ state.v[1] = last.key
    /\ pressed_keys[last.key] = 1
    /\ ~Awaiting(state)
    /\ Len(previous_states) > 0
    /\ Awaiting(previous_states[1])

\* C7: reverse_cpu with an empty history changes nothing and raises no error;
\* with a non-empty history it removes exactly the front entry and makes it
\* the current state.
C7_ReverseCpu ==
    [][last'.name = "reverse_cpu" =>
            /\ ~panicked'
            /\ pressed_keys' = pressed_keys
            /\ IF previous_states = << >>
               THEN state' = state /\ previous_states' = << >>
               ELSE /\ state' = previous_states[1]
                    /\ previous_states' = SubSeq(previous_states, 2, Len(previous_states))
      ]_vars

\* reverse_cpu was called on a loaded machine that has never saved a state
C7_Witness ==
    /\ last.name = "reverse_cpu"
    /\ saved = << >>
    /\ previous_states = << >>
    /\ state # StateNew
    /\ ~panicked

\* C8: in any 8 consecutive advance_timers calls the timers are decremented on
\* exactly one call.
C8_TimerCadence ==
    Len(timer_window) = 8 =>
        Cardinality({ k \in 1..8 : timer_window[k] }) = 1

\* C9: the timers never wrap below zero.  On a tick (the call that finds the
\* sub-cycle counter at zero) a nonzero timer decreases by exactly 1 and a
\* zero timer stays 0; between ticks both are unchanged; both tick on the
\* same calls.
C9_TimersClamp ==
    [][Returned("advance_timers") =>
            LET tick == state.delay_counter = 0
            IN  /\ state'.delay_timer \in 0..255
                /\ state'.sound_timer \in 0..255
                /\ state'.delay_timer =
                     IF tick /\ state.delay_timer > 0 THEN state.delay_timer - 1
                     ELSE state.delay_timer
                /\ state'.sound_timer =
                     IF tick /\ state.sound_timer > 0 THEN state.sound_timer - 1
                     ELSE state.sound_timer
      ]_vars

\* a tick has decremented a nonzero delay_timer and left a zero sound_timer
C9_Witness ==
    /\ last.name = "advance_timers"
    /\ state.delay_counter = CPU_CYCLES_PER_TIMER_CYCLE
    /\ state.delay_timer = 1
    /\ state.sound_timer = 0
    /\ state.v[1] = 2

\* C10: once get_frame has returned the frame, a following get_frame returns
\* nothing unless clr or draw has executed in between.
C10_FrameRetrievedOnce ==
    (last.name = "get_frame" /\ frame.some) => ~get_frame(state).some

\* C11: load_rom given a ROM longer than 4096 - 0x200 = 3584 bytes returns an
\* error result: it neither panics nor reports success.
C11_LoadRomTooLong ==
    [][\A rom \in ROMS \cup LongRoms :
            (LoadRom(rom) /\ Len(rom) > ROM_ROOM)
                => (rom_result' = "Err" /\ ~panicked')
      ]_vars

\* C12: load_rom given a ROM of L <= 3584 bytes reports success, leaves
\* memory[0x200 .. 0x200 + L] equal to the ROM bytes, and leaves every other
\* memory byte (the font included) and every other State field unchanged.
C12_LoadRomVerbatim ==
    [][\A rom \in ROMS \cup LongRoms :
            (LoadRom(rom) /\ Len(rom) <= ROM_ROOM)
                => /\ rom_result' = "Ok"
                   /\ \A a \in 0..(MEMORY_SIZE - 1) :
                        Cell(state'.memory, a) =
                            IF a >= ROM_START /\ a < ROM_START + Len(rom)
                            THEN rom[a - ROM_START + 1]
                            ELSE Cell(state.memory, a)
                   /\ state' = [state EXCEPT !.memory = state'.memory]
      ]_vars

\* the instruction forms of the CHIP-8 instruction set, by opcode range
InRange(op, lo, hi) == op >= lo /\ op <= hi
DefinedForm(op) ==
    CASE op = 224 -> "Clr"
      [] op = 238 -> "Rts"
      [] InRange(op, 4096, 8191) -> "Jump"
      [] InRange(op, 8192, 12287) -> "Call"
      [] InRange(op, 12288, 16383) -> "Ske"
      [] InRange(op, 16384, 20479) -> "Skne"
      [] InRange(op, 20480, 24575) /\ op % 16 = 0 -> "Skre"
      [] InRange(op, 24576, 28671) -> "Load"
      [] InRange(op, 28672, 32767) -> "Add"
      [] InRange(op, 32768, 36863) /\ op % 16 = 0 -> "Move"
      [] InRange(op, 32768, 36863) /\ op % 16 = 1 -> "Or"
      [] InRange(op, 32768, 36863) /\ op % 16 = 2 -> "And"
      [] InRange(op, 32768, 36863) /\ op % 16 = 3 -> "Xor"
      [] InRange(op, 32768, 36863) /\ op % 16 = 4 -> "Addr"
      [] InRange(op, 32768, 36863) /\ op % 16 = 5 -> "Sub"
      [] InRange(op, 32768, 36863) /\ op % 16 = 6 -> "Shr"
      [] InRange(op, 32768, 36863) /\ op % 16 = 7 -> "Subn"
      [] InRange(op, 32768, 36863) /\ op % 16 = 14 -> "Shl"
      [] InRange(op, 36864, 40959) /\ op % 16 = 0 -> "Skrne"
      [] InRange(op, 40960, 45055) -> "Loadi"
      [] InRange(op, 45056, 49151) -> "Jumpi"
      [] InRange(op, 49152, 53247) -> "Rand"
      [] InRange(op, 53248, 57343) -> "Draw"
      [] InRange(op, 57344, 61439) /\ op % 256 = 158 -> "Skpr"
      [] InRange(op, 57344, 61439) /\ op % 256 = 161 -> "Skup"
      [] InRange(op, 61440, 65535) /\ op % 256 = 7 -> "Moved"
      [] InRange(op, 61440, 65535) /\ op % 256 = 10 -> "Keyd"
      [] InRange(op, 61440, 65535) /\ op % 256 = 21 -> "Loads"
      [] InRange(op, 61440, 65535) /\ op % 256 = 24 -> "Ld"
      [] InRange(op, 61440, 65535) /\ op % 256 = 30 -> "Addi"
      [] InRange(op, 61440, 65535) /\ op % 256 = 41 -> "Ldspr"
      [] InRange(op, 61440, 65535) /\ op % 256 = 51 -> "Bcd"
      [] InRange(op, 61440, 65535) /\ op % 256 = 85 -> "Stor"
      [] InRange(op, 61440, 65535) /\ op % 256 = 101 -> "Read"
      [] OTHER -> "Panic"

\* the step is an advance_cpu call that fetched an opcode
Fetched == last'.name = "advance_cpu" /\ last'.op # None

\* C13: every opcode of one of the 34 defined forms decodes to that
\* instruction; every other opcode ends the cycle in the fatal error: the
\* call produces no successor state and saves nothing.
C13_DecodeTotal ==
    [][Fetched =>
            /\ last'.instruction = DefinedForm(last'.op)
            /\ DefinedForm(last'.op) = "Panic" =>
                    /\ panicked'
                    /\ UNCHANGED << state, previous_states, saved >>
      ]_vars

\* 0x5121 (5xy1, no such form) has ended a run, or the empty program has
C13_Witness ==
    /\ panicked
    /\ last.name = "advance_cpu"
    /\ last.op \in { 0, 20769 }
    /\ last.instruction = "Panic"
    /\ saved = << >>

\* the step is an advance_cpu call that executed the instruction and returned
Executed(instruction) ==
    /\ last'.name = "advance_cpu"
    /\ last'.instruction = instruction
    /\ ~panicked'

\* the condition of a skip instruction, read off the state before it
SkipHolds(instruction, op) ==
    LET vx == state.v[op_x(op)]
        vy == state.v[op_y(op)]
    IN  CASE instruction = "Ske" -> vx = op_kk(op)
          [] instruction = "Skne" -> vx # op_kk(op)
          [] instruction = "Skre" -> vx = vy
          [] instruction = "Skrne" -> vx # vy
          [] instruction = "Skpr" -> pressed_keys[vx] = 1
          [] instruction = "Skup" -> pressed_keys[vx] = 0

C15_ArithmeticFlags ==
    [][LET op == last'.op
           vx == state.v[op_x(op)]
           vy == state.v[op_y(op)]
       IN  /\ Executed("Addr") => state'.v[15] = (IF vx + vy > 255 THEN 1 ELSE 0)
           /\ Executed("Sub") => state'.v[15] = (IF vx >= vy THEN 1 ELSE 0)
           /\ Executed("Subn") => state'.v[15] = (IF vy >= vx THEN 1 ELSE 0)
      ]_vars

\* the sprite of a draw, read off the state st before it: the visits (row,
\* bit), the sprite's bit at a visit (most significant bit first) and the
\* pixel the visit lands on
SpriteVisits(op) == (0..(op_n(op) - 1)) \X (0..7)
SpriteBit(st, visit) == Bit(Cell(st.memory, st.i + visit[1]), 7 - visit[2])
SpritePixel(st, op, visit) ==
    << (st.v[op_y(op)] + visit[1]) % DISPLAY_HEIGHT,
       (st.v[op_x(op)] + visit[2]) % DISPLAY_WIDTH >>

\* C16: draw (Dxyn) with I + n <= 4096 does not trap, whatever Vx and Vy;
\* the pixel at row (Vy + r) mod 32, column (Vx + b) mod 64 becomes its old
\* value XOR bit 7 - b of memory[I + r], for r in 0..n-1 and b in 0..7; every
\* other pixel is unchanged; draw_flag is set.
C16_DrawPixels ==
    [][(Fetched /\ last'.instruction = "Draw"
            /\ state.i + op_n(last'.op) <= MEMORY_SIZE) =>
          LET op == last'.op
              touched == { SpritePixel(state, op, visit) : visit \in SpriteVisits(op) }
          IN  /\ ~panicked'
              /\ state'.draw_flag
              /\ \A visit \in SpriteVisits(op) :
                    Cell(state'.frame_buffer, SpritePixel(state, op, visit)) =
                        BitXorF(Cell(state.frame_buffer, SpritePixel(state, op, visit)),
                                SpriteBit(state, visit))
              /\ \A cell \in (DOMAIN state.frame_buffer) \cup (DOMAIN state'.frame_buffer) :
                    /\ cell \in (0..(DISPLAY_HEIGHT - 1)) \X (0..(DISPLAY_WIDTH - 1))
                    /\ cell \notin touched =>
                          Cell(state'.frame_buffer, cell) = Cell(state.frame_buffer, cell)
      ]_vars

\* the top row of glyph 0 (0xF0) drawn at Vx = 255, Vy = 255 on an empty
\* screen: row 31, columns 63, 0, 1 and 2
C16_Witness ==
    /\ last.name = "advance_cpu"
    /\ last.op = Op(13, 1, 2, 1)
    /\ ~panicked
    /\ state.v[1] = 255
    /\ state.v[2] = 255
    /\ state.i = 0
    /\ DOMAIN state.frame_buffer =
          { << 31, 63 >>, << 31, 0 >>, << 31, 1 >>, << 31, 2 >> }

\* C17: after draw VF = 1 iff some set bit of the sprite landed on a pixel
\* that was set before the instruction, and VF = 0 otherwise, whatever VF
\* was before.
C17_DrawCollision ==
    [][Executed("Draw") =>
          LET op == last'.op
          IN  state'.v[15] =
                IF \E visit \in SpriteVisits(op) :
                      /\ SpriteBit(state, visit) = 1
                      /\ Cell(state.frame_buffer, SpritePixel(state, op, visit)) = 1
                THEN 1 ELSE 0
      ]_vars

\* glyph 0 drawn over itself: every pixel erased, the flag set although the
\* last bit of the last row is clear
C17_Witness ==
    /\ last.name = "advance_cpu"
    /\ last.op = Op(13, 1, 2, 5)
    /\ ~panicked
    /\ fwd = 1
    /\ state.i = 0
    /\ state.frame_buffer = EmptyFrame
    /\ state.v[15] = 1

\* the last two cycles drew the same sprite at the same place: the same
\* opcode with Vx and Vy as before, a sprite with a set bit
DrawnTwice ==
    /\ last.name = "advance_cpu"
    /\ last.instruction = "Draw"
    /\ ~panicked
    /\ fwd = 2
    /\ rev = 0
    /\ get_op(run_start).op = last.op
    /\ LET first == saved[Len(saved) - 1]
       IN  /\ first.v[op_x(last.op)] = run_start.v[op_x(last.op)]
           /\ first.v[op_y(last.op)] = run_start.v[op_y(last.op)]
    /\ \E visit \in SpriteVisits(last.op) : SpriteBit(run_start, visit) = 1

\* C18 as stated: drawing the same non-zero sprite twice at the same
\* location leaves the frame buffer as it was before the first draw and
\* VF = 1 after the second draw.
C18_DrawTwiceSetsFlag ==
    DrawnTwice =>
        /\ state.frame_buffer = run_start.frame_buffer
        /\ state.v[15] = 1

\* C18 amended: drawing the same non-zero sprite twice at the same location
\* leaves the frame buffer as it was before the first draw; VF = 1 after the
\* second draw iff some set bit of the sprite landed on a pixel that was
\* clear before the first draw, and VF = 0 if every set bit landed on a
\* pixel that was already set.
C18_DrawTwice ==
    DrawnTwice =>
        /\ state.frame_buffer = run_start.frame_buffer
        /\ state.v[15] =
              IF \E visit \in SpriteVisits(last.op) :
                    /\ SpriteBit(run_start, visit) = 1
                    /\ Cell(run_start.frame_buffer,
                            SpritePixel(run_start, last.op, visit)) = 0
              THEN 1 ELSE 0

\* glyph 0 drawn twice on an empty screen, and twice over itself
C18_Witness ==
    /\ DrawnTwice
    /\ last.op = Op(13, 1, 2, 5)
    /\ state.i = 0
    /\ \/ state.frame_buffer = EmptyFrame /\ state.v[15] = 1
       \/ state.frame_buffer = FrameGlyph /\ state.v[15] = 0

\* C19: store-registers (Fx55) copies V0..=Vx into memory[I..=I+x] (x + 1
\* bytes) and load-registers (Fx65) copies memory[I..=I+x] into V0..=Vx; both
\* leave I and every byte and register outside the range unchanged; Fx55
\* followed at once by Fx65 with the same I and x leaves V0..=Vx as they
\* were before the store.
C19_RegisterBlock ==
    [][LET op == last'.op
           x == op_x(op)
           range == state.i..(state.i + x)
       IN  /\ Executed("Stor") =>
                /\ \A a \in range : Cell(state'.memory, a) = state.v[a - state.i]
                /\ \A a \in ((DOMAIN state.memory) \cup (DOMAIN state'.memory)) \ range :
                        Cell(state'.memory, a) = Cell(state.memory, a)
                /\ state' = [state EXCEPT !.memory = state'.memory,
                                          !.pc = state.pc + 2]
           /\ Executed("Read") =>
                /\ \A r \in 0..(NUM_REGISTERS - 1) :
                        state'.v[r] = IF r <= x THEN Cell(state.memory, state.i + r)
                                      ELSE state.v[r]
                /\ state' = [state EXCEPT !.v = state'.v, !.pc = state.pc + 2]
           /\ (Executed("Read") /\ fwd' = 2
                    /\ get_op(run_start').op = Op(15, x, 5, 5)
                    /\ run_start'.i = state.i) =>
                \A r \in 0..x : state'.v[r] = run_start'.v[r]
      ]_vars

\* V0 .. V2 = 7, 255, 128 stored at 0x300 and read back
C19_Witness ==
    /\ last.name = "advance_cpu"
    /\ last.op = Op(15, 2, 6, 5)
    /\ ~panicked
    /\ fwd = 2
    /\ state.i = 768
    /\ state.v[0] = 7 /\ state.v[1] = 255 /\ state.v[2] = 128
    /\ Cell(state.memory, 768) = 7
    /\ Cell(state.memory, 769) = 255
    /\ Cell(state.memory, 770) = 128
    /\ Cell(state.memory, 771) = 0

\* C20: call (2nnn) executed with sp < 15 yields sp = old sp + 1,
\* stack[old sp + 1] = old pc (the address of the call itself), pc = nnn, and
\* leaves every other stack slot, the registers, I, memory, the timers and
\* the frame buffer unchanged.
C20_Call ==
    [][(Fetched /\ last'.instruction = "Call" /\ state.sp < STACK_SIZE - 1) =>
            /\ ~panicked'
            /\ state'.sp = state.sp + 1
            /\ state'.stack[state.sp + 1] = state.pc
            /\ state'.pc = op_addr(last'.op)
            /\ \A k \in (0..(STACK_SIZE - 1)) \ { state.sp + 1 } :
                    state'.stack[k] = state.stack[k]
            /\ state' = [state EXCEPT !.pc = state'.pc,
                                      !.sp = state'.sp,
                                      !.stack = state'.stack]
      ]_vars

\* the call at 0x200 made with 14 calls pending: the last slot holds 0x200
C20_Witness ==
    /\ last.name = "advance_cpu"
    /\ last.instruction = "Call"
    /\ ~panicked
    /\ state.sp = STACK_SIZE - 1
    /\ state.stack[STACK_SIZE - 1] = ROM_START
    /\ state.stack[STACK_SIZE - 2] = 768 + 2 * (STACK_SIZE - 2)
    /\ state.pc = 752
    /\ state.v[1] = 255

\* C21: return (00EE) executed with sp >= 1 yields pc = stack[old sp] + 2 and
\* sp = old sp - 1, and leaves the stack contents and every other field
\* unchanged.
C21_Return ==
    [][(Fetched /\ last'.instruction = "Rts" /\ state.sp >= 1) =>
            /\ ~panicked'
            /\ state'.pc = state.stack[state.sp] + 2
            /\ state'.sp = state.sp - 1
            /\ state' = [state EXCEPT !.pc = state'.pc, !.sp = state'.sp]
      ]_vars

\* C24: in every state reachable by executing any program (any build), sp is
\* in 0..15: a call at sp = 15 and a return at sp = 0 never yield a successor
\* state whose sp is 16 or 255.
C24_StackPointerInRange ==
    state.sp \in 0..(STACK_SIZE - 1)

\* C22: for every x in 0..14 and every 8-bit Vx, shl (8xyE) yields
\* Vx = (2 * old Vx) mod 256 and VF = 1 iff old Vx >= 128 (else 0), and shr
\* (8xy6) yields Vx = floor(old Vx / 2) and VF = old Vx & 1 (the bit shifted
\* out); Vy is neither read (the results are functions of old Vx alone) nor
\* written (no register but Vx and VF changes).
C22_Shifts ==
    [][LET op == last'.op
           x == op_x(op)
           vx == state.v[x]
           others == (0..(NUM_REGISTERS - 1)) \ { x, 15 }
       IN  /\ (Fetched /\ last'.instruction = "Shl" /\ x # 15) =>
                /\ ~panicked'
                /\ state'.v[x] = (2 * vx) % 256
                /\ state'.v[15] = (IF vx >= 128 THEN 1 ELSE 0)
                /\ \A r \in others : state'.v[r] = state.v[r]
           /\ (Fetched /\ last'.instruction = "Shr" /\ x # 15) =>
                /\ ~panicked'
                /\ state'.v[x] = vx \div 2
                /\ state'.v[15] = vx % 2
                /\ \A r \in others : state'.v[r] = state.v[r]
      ]_vars

\* 8126 executed once with V1 = 255 and V2 = 128: V1 = 127, VF = 1, V2 as it
\* was
C22_Witness ==
    /\ last.name = "advance_cpu"
    /\ last.instruction = "Shr"
    /\ op_x(last.op) = 1
    /\ op_y(last.op) = 2
    /\ ~panicked
    /\ fwd = 1
    /\ state.v[1] = 127
    /\ state.v[15] = 1
    /\ state.v[2] = 128

\* C23: arithmetic overflow and underflow never trap: in every reachable state
\* and on every build, add (7xkk), addr (8xy4), sub (8xy5), subn (8xy7),
\* shl (8xyE) and addi (Fx1E) each complete, whatever the operand values, and
\* produce a successor state holding the wrapped result.
C23_ArithmeticNeverTraps ==
    [][LET op == last'.op
           x == op_x(op)
           vx == state.v[x]
           vy == state.v[op_y(op)]
       IN  /\ (Fetched /\ last'.instruction = "Add") =>
                ~panicked' /\ state'.v[x] = (vx + op_kk(op)) % 256
           /\ (Fetched /\ last'.instruction = "Addr") =>
                ~panicked' /\ state'.v[x] = (vx + vy) % 256
           /\ (Fetched /\ last'.instruction = "Sub") =>
                ~panicked' /\ state'.v[x] = (vx - vy) % 256
           /\ (Fetched /\ last'.instruction = "Subn") =>
                ~panicked' /\ state'.v[x] = (vy - vx) % 256
           /\ (Fetched /\ last'.instruction = "Shl") =>
                ~panicked' /\ state'.v[x] = (2 * vx) % 256
           /\ (Fetched /\ last'.instruction = "Addi") =>
                ~panicked' /\ state'.i = (state.i + vx) % 65536
      ]_vars

\* C25: for all values of Vx, skpr (Ex9E) yields pc + 4 iff pressed_keys[Vx]
\* is 1 and pc + 2 otherwise, skup (ExA1) yields pc + 4 iff pressed_keys[Vx]
\* is 0 and pc + 2 otherwise, and nothing but pc changes.  (For a Vx that
\* names no key the formula asks only for a successor with pc + 2 or pc + 4.)
C25_SkipOnKey ==
    [][LET vx == state.v[op_x(last'.op)]
           names_key == vx \in DOMAIN pressed_keys
       IN  /\ (Fetched /\ last'.instruction = "Skpr") =>
                /\ ~panicked'
                /\ state'.pc \in { state.pc + 2, state.pc + 4 }
                /\ names_key =>
                     (state'.pc = state.pc + 4 <=> pressed_keys[vx] = 1)
                /\ state' = [state EXCEPT !.pc = state'.pc]
           /\ (Fetched /\ last'.instruction = "Skup") =>
                /\ ~panicked'
                /\ state'.pc \in { state.pc + 2, state.pc + 4 }
                /\ names_key =>
                     (state'.pc = state.pc + 4 <=> pressed_keys[vx] = 0)
                /\ state' = [state EXCEPT !.pc = state'.pc]
      ]_vars

\* C26: advance_cpu and reverse_cpu never modify pressed_keys, only key_press
\* and key_release do; so a key pressed before a rewind is still reported
\* pressed by skpr (Ex9E) after any number of reverse_cpu calls: skpr skips
\* iff the key is down in pressed_keys, which no rewind has changed.
C26_KeysOutsideHistory ==
    [][/\ last'.name \in { "advance_cpu", "reverse_cpu" } =>
              pressed_keys' = pressed_keys
       /\ pressed_keys' # pressed_keys =>
              last'.name \in { "key_press", "key_release" }
       /\ (Fetched /\ last'.instruction = "Skpr"
              /\ state.v[op_x(last'.op)] < NUM_KEYS) =>
              /\ ~panicked'
              /\ state'.pc = state.pc +
                    (IF pressed_keys[state.v[op_x(last'.op)]] = 1 THEN 4 ELSE 2)
      ]_vars

\* key 15 down when skpr first ran (it skipped to 0x206), the machine rewound
\* to the state before that skpr, and the skpr of the re-run skipped again
C26_Witness ==
    /\ last.name = "advance_cpu"
    /\ last.instruction = "Skpr"
    /\ ~panicked
    /\ rewound
    /\ pressed_keys[15] = 1
    /\ Len(saved) = 3
    /\ saved[2].pc = ROM_START + 6
    /\ saved[3] = state
    /\ state.v[1] = 15
    /\ state.pc = ROM_START + 6

\* C27: bcd (Fx33) with I + 3 <= 4096 writes memory[I], memory[I + 1],
\* memory[I + 2] = the hundreds, tens and ones digits of Vx, for every 8-bit
\* Vx: each digit is in 0..9 and 100 * memory[I] + 10 * memory[I + 1] +
\* memory[I + 2] = Vx; all other memory, the registers and I are unchanged.
C27_Bcd ==
    [][(Fetched /\ last'.instruction = "Bcd" /\ state.i + 3 <= MEMORY_SIZE) =>
          LET vx == state.v[op_x(last'.op)]
              m0 == Cell(state'.memory, state.i)
              m1 == Cell(state'.memory, state.i + 1)
              m2 == Cell(state'.memory, state.i + 2)
          IN  /\ ~panicked'
              /\ m0 = vx \div 100
              /\ m1 = (vx \div 10) % 10
              /\ m2 = vx % 10
              /\ { m0, m1, m2 } \subseteq 0..9
              /\ 100 * m0 + 10 * m1 + m2 = vx
              /\ \A a \in ((DOMAIN state.memory) \cup (DOMAIN state'.memory))
                            \ (state.i..(state.i + 2)) :
                    Cell(state'.memory, a) = Cell(state.memory, a)
              /\ state' = [state EXCEPT !.pc = state.pc + 2,
                                        !.memory = state'.memory]
      ]_vars

\* F133 with V1 = 128 and I = 0x300: memory[0x300..0x302] = 1, 2, 8
C27_Witness ==
    /\ last.name = "advance_cpu"
    /\ last.op = Op(15, 1, 3, 3)
    /\ ~panicked
    /\ state.v[1] = 128
    /\ state.i = 768
    /\ Cell(state.memory, 768) = 1
    /\ Cell(state.memory, 769) = 2
    /\ Cell(state.memory, 770) = 8
    /\ Cell(state.memory, 771) = 0

\* C28: clr (00E0) sets every pixel of the frame buffer to 0 and sets
\* draw_flag, whatever the prior contents; it is idempotent: a clr executed
\* right after a clr leaves the frame buffer and draw_flag as the first did.
C28_ClearScreen ==
    [][(Fetched /\ last'.instruction = "Clr") =>
            /\ ~panicked'
            /\ \A cell \in (0..(DISPLAY_HEIGHT - 1)) \X (0..(DISPLAY_WIDTH - 1)) :
                    Cell(state'.frame_buffer, cell) = 0
            /\ state'.draw_flag
            /\ (last.name = "advance_cpu" /\ last.instruction = "Clr") =>
                    /\ state'.frame_buffer = state.frame_buffer
                    /\ state'.draw_flag = state.draw_flag
      ]_vars

\* two clrs in a row on a screen that showed glyph 0: empty after the first
\* and after the second
C28_Witness ==
    /\ last.name = "advance_cpu"
    /\ last.instruction = "Clr"
    /\ ~panicked
    /\ fwd = 2
    /\ run_start.frame_buffer = FrameGlyph
    /\ saved[Len(saved) - 1].frame_buffer = EmptyFrame
    /\ state.frame_buffer = EmptyFrame
    /\ state.draw_flag

\* C29: add (7xkk), move (8xy0), or (8xy1), and (8xy2) and xor (8xy3) with
\* x # 0xF change only Vx and pc: VF and every other register, I, sp, the
\* stack, memory, the timers and the frame buffer keep their prior values;
\* add yields Vx = (old Vx + kk) mod 256.
C29_FlagFree ==
    [][LET op == last'.op
           x == op_x(op)
       IN  (Fetched /\ x # 15
                /\ last'.instruction \in { "Add", "Move", "Or", "And", "Xor" }) =>
              /\ ~panicked'
              /\ state' = [state EXCEPT !.pc = state.pc + 2,
                                        !.v = [state.v EXCEPT ![x] = state'.v[x]]]
              /\ last'.instruction = "Add" =>
                    state'.v[x] = (state.v[x] + op_kk(op)) % 256
      ]_vars

\* 8121 with V1 = 128, V2 = 1 and VF = 1: V1 = 129 and VF is still 1
C29_Witness ==
    /\ last.name = "advance_cpu"
    /\ last.op = Op(8, 1, 2, 1)
    /\ ~panicked
    /\ fwd = 1
    /\ state.v[1] = 129
    /\ state.v[2] = 1
    /\ state.v[15] = 1
    /\ state.pc = ROM_START + 2

\* C30: only clr and draw change the frame buffer, and both set draw_flag: a
\* forward cycle that executes any other instruction (or waits for a key)
\* leaves frame_buffer and draw_flag as they were; hence whenever a forward
\* cycle changes the frame buffer, get_frame afterwards returns the new frame.
C30_FrameWriters ==
    [][(last'.name = "advance_cpu" /\ ~panicked') =>
            /\ last'.instruction \in { "Clr", "Draw" } => state'.draw_flag
            /\ last'.instruction \notin { "Clr", "Draw" } =>
                    /\ state'.frame_buffer = state.frame_buffer
                    /\ state'.draw_flag = state.draw_flag
            /\ state'.frame_buffer # state.frame_buffer =>
                    get_frame(state') = [some |-> TRUE, frame |-> state'.frame_buffer]
      ]_vars

\* a sprite drawn on an empty screen nothing had drawn on before: the frame
\* buffer changed and get_frame returns it
C30_Witness ==
    /\ last.name = "advance_cpu"
    /\ last.instruction = "Draw"
    /\ ~panicked
    /\ fwd = 1
    /\ ~run_start.draw_flag
    /\ run_start.frame_buffer = EmptyFrame
    /\ state.frame_buffer # EmptyFrame
    /\ get_frame(state).some
    /\ get_frame(state).frame = state.frame_buffer

\* C31: fetch is big-endian: when no key is awaited and pc <= 4094,
\* advance_cpu decodes the opcode memory[pc] * 256 + memory[pc + 1], and the
\* nibble accessors decompose it: opcode = n0 * 4096 + x * 256 + y * 16 + n,
\* kk = y * 16 + n and addr = x * 256 + y * 16 + n.
C31_FetchBigEndian ==
    [][(last'.name = "advance_cpu" /\ ~Awaiting(state)
            /\ state.pc <= MEMORY_SIZE - 2) =>
          LET word == Cell(state.memory, state.pc) * 256
                          + Cell(state.memory, state.pc + 1)
              nb == nibbles(word)
          IN  /\ last'.op = word
              /\ last'.instruction = DefinedForm(word)
              /\ \A k \in 1..4 : nb[k] \in 0..15
              /\ nb[2] = op_x(word) /\ nb[3] = op_y(word) /\ nb[4] = op_n(word)
              /\ word = nb[1] * 4096 + nb[2] * 256 + nb[3] * 16 + nb[4]
              /\ op_kk(word) = nb[3] * 16 + nb[4]
              /\ op_addr(word) = nb[2] * 256 + nb[3] * 16 + nb[4]
      ]_vars

\* the bytes 0x81 0x24 at 0x200 were fetched as 0x8124 (addr, not the 0x2481
\* of the other byte order) and executed
C31_Witness ==
    /\ last.name = "advance_cpu"
    /\ last.op = 33060
    /\ last.instruction = "Addr"
    /\ ~panicked
    /\ Cell(state.memory, ROM_START) = 129
    /\ Cell(state.memory, ROM_START + 1) = 36
    /\ state.pc = ROM_START + 2

SpriteAt(st, op) ==
    LET lit == { SpritePixel(st, op, visit) :
                    visit \in { w \in SpriteVisits(op) : SpriteBit(st, w) = 1 } }
    IN  Store(st.frame_buffer,
              [cell \in lit |-> BitXorF(Cell(st.frame_buffer, cell), 1)])

\* C33: draw takes the sprite position from the values of Vx and Vy held
\* before the instruction, for every row and bit, also when x or y is 0xF:
\* resetting VF and accumulating the collision bit never moves the sprite.
\* This is asked of the draw of operations.rs and of the 0xD arm of the
\* monolithic executor alike.
C33_DrawPositionFixed ==
    [][(Fetched /\ last'.instruction = "Draw"
            /\ state.i + op_n(last'.op) <= MEMORY_SIZE) =>
          LET arm == opcode_execute(last'.op, state, pressed_keys, checks, 0)
          IN  /\ ~panicked'
              /\ state'.frame_buffer = SpriteAt(state, last'.op)
              /\ arm.ok
              /\ arm.st.frame_buffer = SpriteAt(state, last'.op)
      ]_vars

\* C34: the two executors agree: for every defined opcode other than rand,
\* every state and the same pressed keys, Opcode::execute of src/src/opcode.rs
\* and Instruction::from_op followed by Instruction::execute produce the same
\* successor state, and they reject the same opcodes.
C34_ExecutorsAgree ==
    [][(Fetched /\ last'.instruction # "Rand") =>
          LET arm == opcode_execute(last'.op, state, pressed_keys, checks, 0)
          IN  /\ arm.ok <=> ~panicked'
              /\ arm.ok => arm.st = state'
      ]_vars

\* C35: a key already held when keyd (Fx0A) executes does not satisfy the
\* wait: the machine suspends (Vx untouched) whatever pressed_keys holds, and
\* stays suspended, registers unchanged, across advance_cpu, advance_timers
\* and key_release calls; a key_press made while it waits clears
\* register_needing_key, and Vx receives the key of that call.
C35_HeldKeyDoesNotResume ==
    [][/\ (Returned("advance_cpu") /\ last'.instruction = "Keyd") =>
              /\ state'.register_needing_key = op_x(last'.op)
              /\ state'.v = state.v
       /\ (Awaiting(state) /\ ~panicked'
              /\ last'.name \in { "advance_cpu", "advance_timers", "key_release" }) =>
              /\ state'.register_needing_key = state.register_needing_key
              /\ state'.v = state.v
       /\ (Awaiting(state) /\ Returned("key_press")) =>
              /\ state'.register_needing_key = None
              /\ state'.v[state.register_needing_key] = last'.key
      ]_vars

\* key 15 was down when F10A executed; the machine has waited through a cycle
\* since, V1 still 0, with the key still down and no rewind
C35_Witness ==
    /\ last.name = "advance_cpu"
    /\ last.instruction = "none"
    /\ ~panicked
    /\ ~rewound
    /\ Awaiting(state)
    /\ state.register_needing_key = 1
    /\ state.v[1] = 0
    /\ pressed_keys[15] = 1
    /\ Len(saved) = 2
    /\ saved[1] = saved[2]

\* the states of the current run of forward cycles: the state before its
\* first cycle, then the state each cycle left (fwd > 0, no rewind since)
RunStates == << run_start >> \o SubSeq(saved, Len(saved) - fwd + 1, Len(saved))
\* a cycle from st fetches and executes the named instruction
Executes(st, instruction) ==
    /\ st.register_needing_key = None
    /\ get_op(st).ok
    /\ from_op(get_op(st).op) = instruction

\* C36: call/return round trip: a call executed at pc = p with sp = s < 15,
\* then any instructions that leave sp at s + 1 and stack[s + 1] as the call
\* left it, then a return, yields pc = p + 2 (the instruction after the call)
\* and sp = s; nested calls so return in last-in-first-out order.
C36_CallReturnRoundTrip ==
    (fwd >= 2 /\ rev = 0) =>
        \A a \in 1..fwd : \A b \in (a + 1)..fwd :
            LET called == RunStates[a]
                entered == RunStates[a + 1]
                returning == RunStates[b]
                returned == RunStates[b + 1]
            IN  (/\ Executes(called, "Call")
                 /\ called.sp < STACK_SIZE - 1
                 /\ Executes(returning, "Rts")
                 /\ returning.sp = called.sp + 1
                 /\ returning.stack[called.sp + 1] = entered.stack[called.sp + 1]) =>
                    /\ returned.pc = called.pc + 2
                    /\ returned.sp = called.sp

\* the nested calls of RomNestedCalls have both returned: the inner return
\* went to 0x206, inside the subroutine, the outer one to 0x202
C36_Witness ==
    /\ fwd = 4
    /\ rev = 0
    /\ last.instruction = "Rts"
    /\ ~panicked
    /\ run_start.pc = ROM_START
    /\ saved[Len(saved) - 2].sp = 2
    /\ saved[Len(saved) - 1].pc = ROM_START + 6
    /\ saved[Len(saved) - 1].sp = 1
    /\ state.pc = ROM_START + 2
    /\ state.sp = 0

\* C37: value ranges: in every state reachable from a fresh machine by
\* cycles, rewinds, timer ticks and key events (keys in 0..15), every
\* frame_buffer cell is 0 or 1, every pressed_keys entry is 0 or 1, and
\* register_needing_key is None or Some(r) with r in 0..15.
C37_ValueRanges ==
    /\ \A cell \in DOMAIN state.frame_buffer :
            /\ cell \in (0..(DISPLAY_HEIGHT - 1)) \X (0..(DISPLAY_WIDTH - 1))
            /\ state.frame_buffer[cell] \in { 0, 1 }
    /\ DOMAIN pressed_keys = 0..(NUM_KEYS - 1)
    /\ \A k \in DOMAIN pressed_keys : pressed_keys[k] \in { 0, 1 }
    /\ state.register_needing_key \in { None } \cup (0..(NUM_REGISTERS - 1))

\* glyph 0 is on the screen after a cycle, a rewind and a timer tick, with
\* key 15 down
C37_Witness ==
    /\ state.frame_buffer = FrameGlyph
    /\ pressed_keys[15] = 1
    /\ rewound
    /\ tcalls >= 1
    /\ Len(saved) >= 1
    /\ ~panicked

\* C38: the decode table is unambiguous: the 34 nibble patterns of from_op
\* are pairwise disjoint, so no opcode matches two of them and the decoded
\* instruction is the one matching arm's whatever the order of the arms (and
\* the fatal error when no arm matches).
C38_DecodeUnambiguous ==
    last.op # None =>
        LET hits == { k \in 1..Len(PATTERN_TABLE) : matches(last.op, k) }
        IN  /\ Cardinality(hits) <= 1
            /\ \A k \in hits : last.instruction = pattern(k).name
            /\ hits = {} <=> last.instruction = "Panic"

\* 0x00EE was fetched: it matches the second arm and no other, 0x00E0's
\* included
C38_Witness ==
    /\ last.name = "advance_cpu"
    /\ last.op = 238
    /\ last.instruction = "Rts"
    /\ { k \in 1..Len(PATTERN_TABLE) : matches(last.op, k) } = { 2 }

\* C39: the sub-cycle counter stays in range: delay_counter is in 0..8 in
\* every reachable state, and advance_timers changes only delay_counter,
\* delay_timer and sound_timer: pc, registers, memory, the frame buffer, the
\* history and pressed_keys are unchanged.
C39_DelayCounterRange ==
    [][/\ state.delay_counter \in 0..CPU_CYCLES_PER_TIMER_CYCLE
       /\ state'.delay_counter \in 0..CPU_CYCLES_PER_TIMER_CYCLE
       /\ Returned("advance_timers") =>
              /\ state' = [state EXCEPT !.delay_counter = state'.delay_counter,
                                        !.delay_timer = state'.delay_timer,
                                        !.sound_timer = state'.sound_timer]
              /\ previous_states' = previous_states
              /\ pressed_keys' = pressed_keys
      ]_vars

\* the counter was reloaded to 8 by a call that found it at 0, and the
\* program's timers (V1 = 2 stored into both) ticked to 1
C39_Witness ==
    /\ last.name = "advance_timers"
    /\ state.delay_counter = CPU_CYCLES_PER_TIMER_CYCLE
    /\ state.delay_timer = 1
    /\ state.sound_timer = 1
    /\ state.v[1] = 2
    /\ state.pc = ROM_START + 6
====
